---- MODULE Spec2Model ----
(***************************************************************************)
(* Request plane of the isA_Cloud gateway: the gin engine as wired by      *)
(* Gateway.SetupHTTPRoutes, the unified authentication middleware with its *)
(* resource authorization gate, and the dynamic proxy handler.             *)
(*                                                                         *)
(* Strings the code inspects character by character (paths, the            *)
(* Authorization header, the client IP, the User-Agent) are sequences of   *)
(* one-character strings, so that strings.HasPrefix, strings.Contains,     *)
(* strings.Split and strings.SplitN are computed as Go computes them.      *)
(***************************************************************************)
EXTENDS Integers, Sequences, FiniteSets, TLC

(* ---------------- Go's strings package, on character sequences -------- *)

HasPrefix(s, prefix) ==
    /\ Len(s) >= Len(prefix)
    /\ SubSeq(s, 1, Len(prefix)) = prefix

Contains(s, substr) ==
    \E i \in 1..(Len(s) - Len(substr) + 1) : SubSeq(s, i, i + Len(substr) - 1) = substr

TrimPrefix(s, prefix) ==
    IF HasPrefix(s, prefix) THEN SubSeq(s, Len(prefix) + 1, Len(s)) ELSE s

\* index of the first occurrence of the one-character separator, 0 if none
IndexOf(s, sep) ==
    IF \E i \in 1..Len(s) : s[i] = sep
    THEN CHOOSE i \in 1..Len(s) : s[i] = sep /\ \A j \in 1..(i - 1) : s[j] # sep
    ELSE 0

RECURSIVE Split(_, _)
Split(s, sep) ==
    LET i == IndexOf(s, sep) IN
    IF i = 0 THEN <<s>>
    ELSE <<SubSeq(s, 1, i - 1)>> \o Split(SubSeq(s, i + 1, Len(s)), sep)

\* strings.SplitN(s, sep, 2): at most two parts, the second is the unsplit rest
SplitN2(s, sep) ==
    LET i == IndexOf(s, sep) IN
    IF i = 0 THEN <<s>>
    ELSE <<SubSeq(s, 1, i - 1), SubSeq(s, i + 1, Len(s))>>

LowerOf(ch) ==
    CASE ch = "C" -> "c" [] ch = "U" -> "u" [] ch = "R" -> "r" [] ch = "L" -> "l"
      [] ch = "M" -> "m" [] ch = "A" -> "a" [] ch = "X" -> "x" [] ch = "I" -> "i"
      [] ch = "O" -> "o" [] ch = "S" -> "s" [] ch = "P" -> "p" [] ch = "H" -> "h"
      [] ch = "T" -> "t"
      [] OTHER -> ch

ToLower(s) == [i \in 1..Len(s) |-> LowerOf(s[i])]

(* ---------------- string literals of the source ----------------------- *)

L_health == <<"/", "h", "e", "a", "l", "t", "h">>
L_ready == <<"/", "r", "e", "a", "d", "y">>
L_gateway_services == <<"/", "a", "p", "i", "/", "v", "1", "/", "g", "a", "t", "e", "w", "a", "y", "/", "s", "e", "r", "v", "i", "c", "e", "s">>
L_api_v1 == <<"/", "a", "p", "i", "/", "v", "1", "/">>
L_pfx_gateway == <<"/", "a", "p", "i", "/", "v", "1", "/", "g", "a", "t", "e", "w", "a", "y", "/">>
L_pfx_blockchain == <<"/", "a", "p", "i", "/", "v", "1", "/", "b", "l", "o", "c", "k", "c", "h", "a", "i", "n", "/">>
L_pfx_agents == <<"/", "a", "p", "i", "/", "v", "1", "/", "a", "g", "e", "n", "t", "s", "/">>
L_pfx_mcp == <<"/", "a", "p", "i", "/", "v", "1", "/", "m", "c", "p", "/">>
L_balance == <<"/", "b", "a", "l", "a", "n", "c", "e", "/">>
L_transaction == <<"/", "t", "r", "a", "n", "s", "a", "c", "t", "i", "o", "n">>
L_status == <<"/", "s", "t", "a", "t", "u", "s">>
L_api_chat == <<"/", "a", "p", "i", "/", "c", "h", "a", "t">>
L_search == <<"/", "s", "e", "a", "r", "c", "h">>
L_tools_call == <<"/", "t", "o", "o", "l", "s", "/", "c", "a", "l", "l">>
L_prompts_get == <<"/", "p", "r", "o", "m", "p", "t", "s", "/", "g", "e", "t">>
L_Bearer == <<"B", "e", "a", "r", "e", "r">>
L_ip4_loopback == <<"1", "2", "7", ".", "0", ".", "0", ".", "1">>
L_ip6_loopback == <<":", ":", "1">>
L_localhost == <<"l", "o", "c", "a", "l", "h", "o", "s", "t">>
L_ua_httpx == <<"p", "y", "t", "h", "o", "n", "-", "h", "t", "t", "p", "x">>
L_ua_axios == <<"a", "x", "i", "o", "s">>
L_ua_node_fetch == <<"n", "o", "d", "e", "-", "f", "e", "t", "c", "h">>
L_ua_go_resty == <<"g", "o", "-", "r", "e", "s", "t", "y">>
L_ua_curl == <<"c", "u", "r", "l">>

(* ---------------- request inputs ------------------------------------- *)

P_healthz == <<"/", "h", "e", "a", "l", "t", "h", "z">>
P_ready_x == <<"/", "r", "e", "a", "d", "y", "/", "x">>
P_gateway_metrics == <<"/", "a", "p", "i", "/", "v", "1", "/", "g", "a", "t", "e", "w", "a", "y", "/", "m", "e", "t", "r", "i", "c", "s">>
P_blockchain_status == <<"/", "a", "p", "i", "/", "v", "1", "/", "b", "l", "o", "c", "k", "c", "h", "a", "i", "n", "/", "s", "t", "a", "t", "u", "s">>
P_blockchain_tx == <<"/", "a", "p", "i", "/", "v", "1", "/", "b", "l", "o", "c", "k", "c", "h", "a", "i", "n", "/", "t", "r", "a", "n", "s", "a", "c", "t", "i", "o", "n">>
P_mcp_tools_call == <<"/", "a", "p", "i", "/", "v", "1", "/", "m", "c", "p", "/", "t", "o", "o", "l", "s", "/", "c", "a", "l", "l">>
P_users_me == <<"/", "a", "p", "i", "/", "v", "1", "/", "u", "s", "e", "r", "s", "/", "m", "e">>
P_agents_chat == <<"/", "a", "p", "i", "/", "v", "1", "/", "a", "g", "e", "n", "t", "s", "/", "a", "p", "i", "/", "c", "h", "a", "t">>
P_payments == <<"/", "a", "p", "i", "/", "v", "1", "/", "p", "a", "y", "m", "e", "n", "t", "s", "/", "p", "1">>
P_user_sessions == <<"/", "a", "p", "i", "/", "v", "1", "/", "u", "s", "e", "r", "s", "/", "u", "1", "/", "s", "e", "s", "s", "i", "o", "n", "s", "/", "s", "1">>
H_basic == <<"B", "a", "s", "i", "c", " ", "a", "b", "c">>
H_bearer_empty == <<"B", "e", "a", "r", "e", "r", " ">>
H_bearer_tok == <<"B", "e", "a", "r", "e", "r", " ", "t", "o", "k">>
IP_remote == <<"1", "0", ".", "0", ".", "0", ".", "5">>
UA_curl == <<"c", "u", "r", "l", "/", "8", ".", "4">>
UA_HTTPX == <<"P", "y", "t", "h", "o", "n", "-", "H", "T", "T", "P", "X", "/", "0", ".", "2", "7">>
UA_browser == <<"M", "o", "z", "i", "l", "l", "a", "/", "5", ".", "0">>
N_users == <<"u", "s", "e", "r", "s">>
N_accounts == <<"a", "c", "c", "o", "u", "n", "t", "s">>
N_auth == <<"a", "u", "t", "h">>
N_agents == <<"a", "g", "e", "n", "t", "s">>
N_models == <<"m", "o", "d", "e", "l", "s">>
N_mcp == <<"m", "c", "p">>
N_payments == <<"p", "a", "y", "m", "e", "n", "t", "s">>
P_accounts == <<"/", "a", "p", "i", "/", "v", "1", "/", "a", "c", "c", "o", "u", "n", "t", "s", "/", "a", "1">>
P_models == <<"/", "a", "p", "i", "/", "v", "1", "/", "m", "o", "d", "e", "l", "s", "/", "m", "1">>
P_users_bare == <<"/", "a", "p", "i", "/", "v", "1", "/", "u", "s", "e", "r", "s">>
N_sessions == <<"s", "e", "s", "s", "i", "o", "n", "s">>
R_health == <<"/", "h", "e", "a", "l", "t", "h">>
R_ready == <<"/", "r", "e", "a", "d", "y">>
R_gw_services == <<"/", "a", "p", "i", "/", "v", "1", "/", "g", "a", "t", "e", "w", "a", "y", "/", "s", "e", "r", "v", "i", "c", "e", "s">>
R_gw_metrics == <<"/", "a", "p", "i", "/", "v", "1", "/", "g", "a", "t", "e", "w", "a", "y", "/", "m", "e", "t", "r", "i", "c", "s">>
R_gw_health == <<"/", "a", "p", "i", "/", "v", "1", "/", "g", "a", "t", "e", "w", "a", "y", "/", "h", "e", "a", "l", "t", "h">>
R_bc_status == <<"/", "a", "p", "i", "/", "v", "1", "/", "b", "l", "o", "c", "k", "c", "h", "a", "i", "n", "/", "s", "t", "a", "t", "u", "s">>
R_bc_balance == <<"/", "a", "p", "i", "/", "v", "1", "/", "b", "l", "o", "c", "k", "c", "h", "a", "i", "n", "/", "b", "a", "l", "a", "n", "c", "e", "/", ":", "a", "d", "d", "r", "e", "s", "s">>
R_bc_transaction == <<"/", "a", "p", "i", "/", "v", "1", "/", "b", "l", "o", "c", "k", "c", "h", "a", "i", "n", "/", "t", "r", "a", "n", "s", "a", "c", "t", "i", "o", "n">>
R_bc_transaction_hash == <<"/", "a", "p", "i", "/", "v", "1", "/", "b", "l", "o", "c", "k", "c", "h", "a", "i", "n", "/", "t", "r", "a", "n", "s", "a", "c", "t", "i", "o", "n", "/", ":", "h", "a", "s", "h">>
R_bc_block == <<"/", "a", "p", "i", "/", "v", "1", "/", "b", "l", "o", "c", "k", "c", "h", "a", "i", "n", "/", "b", "l", "o", "c", "k", "/", ":", "n", "u", "m", "b", "e", "r">>
P_blockchain_balance == <<"/", "a", "p", "i", "/", "v", "1", "/", "b", "l", "o", "c", "k", "c", "h", "a", "i", "n", "/", "b", "a", "l", "a", "n", "c", "e", "/", "a", "1">>

Paths ==
    { L_health, P_healthz, L_ready, P_ready_x, L_gateway_services, P_gateway_metrics,
      P_blockchain_status, P_blockchain_tx, P_blockchain_balance, P_mcp_tools_call, P_users_me,
      P_agents_chat, P_payments, P_user_sessions }

Methods == {"GET", "POST"}

\* X-Service-Name / X-Service-Secret header values ("" = header absent)
ServiceNameHeaders == {"", "payment", "ghost"}
ServiceSecretHeaders == {"", "dev-secret"}

\* Authorization header values (<<>> = header absent)
AuthorizationHeaders == {<<>>, H_basic, H_bearer_empty, H_bearer_tok}

\* an API key in the X-API-Key header, the api_key query, the api_key cookie
APIKeyValues == {"", "key1"}

\* the peer address of the connection (Request.RemoteAddr without the port)
RemoteAddrs == {L_ip4_loopback, IP_remote}
\* X-Forwarded-For header values (<<>> = header absent)
ForwardedFors == {<<>>, L_ip4_loopback}
UserAgents == {UA_curl, UA_browser, UA_HTTPX}
\* Accept header values (<<>> = header absent)
A_event_stream == <<"t", "e", "x", "t", "/", "e", "v", "e", "n", "t", "-", "s", "t", "r", "e", "a", "m">>
A_json == <<"a", "p", "p", "l", "i", "c", "a", "t", "i", "o", "n", "/", "j", "s", "o", "n">>
A_any == <<"*", "/", "*">>
AcceptHeaders == {<<>>, A_event_stream, A_json, A_any}

\* Origin header values ("" = header absent, as for a same-origin request)
L_OPTIONS == "OPTIONS"
Origins == {"", "https://app.example"}

Requests ==
    [ method : Methods \cup {L_OPTIONS}, origin : Origins, path : Paths,
      serviceName : ServiceNameHeaders, serviceSecret : ServiceSecretHeaders,
      authorization : AuthorizationHeaders,
      keyHeader : APIKeyValues, keyQuery : APIKeyValues, keyCookie : APIKeyValues,
      remoteAddr : RemoteAddrs, forwardedFor : ForwardedFors, userAgent : UserAgents,
      accept : AcceptHeaders ]

NoRequest ==
    [ method |-> "", origin |-> "", path |-> <<>>, serviceName |-> "", serviceSecret |-> "",
      authorization |-> <<>>, keyHeader |-> "", keyQuery |-> "", keyCookie |-> "",
      remoteAddr |-> <<>>, forwardedFor |-> <<>>, userAgent |-> <<>>, accept |-> <<>> ]

(* ---------------- the service registry (Consul) ------------------------ *)

\* nil: NewConsulRegistry failed and the gateway runs without a registry
\* up: the agent answers; services: Agent().Services(); healthy: name -> tags
\*     of the first passing instance of Health().Service(name, "", true)
ConsulStates ==
    { [nil |-> TRUE,  up |-> FALSE, services |-> {}, healthy |-> {}],
      [nil |-> FALSE, up |-> FALSE, services |-> {}, healthy |-> {}],
      [nil |-> FALSE, up |-> TRUE,  services |-> {}, healthy |-> {}],
      [nil |-> FALSE, up |-> TRUE,  services |-> {"payment", "users", "mcp"},
         healthy |-> {<<N_users, {"api"}>>, <<N_mcp, {"sse", "mcp"}>>}] }

(* ---------------- unified authentication: pure helpers ----------------- *)

publicPaths == <<L_health, L_ready, L_gateway_services>>

isPublicEndpoint(path) ==
    \E i \in 1..Len(publicPaths) : HasPrefix(path, publicPaths[i])

\* consul.ListServices() and the lookup of the claimed name
isValidInternalService(serviceName, consul) ==
    IF consul.nil THEN FALSE
    ELSE IF ~consul.up THEN FALSE
    ELSE serviceName \in consul.services

\* c.ClientIP() on the engine of gin.New(): every peer is a trusted proxy, so an
\* X-Forwarded-For header naming one address is taken as the client address
ClientIP(r) == IF r.forwardedFor # <<>> THEN r.forwardedFor ELSE r.remoteAddr

isLocalhost(ip) ==
    ip = L_ip4_loopback \/ ip = L_ip6_loopback \/ HasPrefix(ip, L_localhost)

serviceUserAgents == <<L_ua_httpx, L_ua_axios, L_ua_node_fetch, L_ua_go_resty, L_ua_curl>>

isServiceUserAgent(userAgent) ==
    \E i \in 1..Len(serviceUserAgents) : Contains(ToLower(userAgent), serviceUserAgents[i])

extractBlockchainResource(path) ==
    IF Contains(path, L_balance) THEN "balance_check"
    ELSE IF Contains(path, L_transaction) THEN "transaction"
    ELSE IF Contains(path, L_status) THEN "status"
    ELSE "blockchain_general"

getAgentAccessLevel(path) ==
    IF Contains(path, L_api_chat) THEN "read_write" ELSE "read_only"

extractMCPResource(path) ==
    IF Contains(path, L_search) THEN "search"
    ELSE IF Contains(path, L_tools_call) THEN "tool_execution"
    ELSE IF Contains(path, L_prompts_get) THEN "prompt_access"
    ELSE "mcp_general"

\* variant: no MCP path asks for write access
getMCPAccessLevel_readOnly(path) == "read_only"

getMCPAccessLevel(path) ==
    IF Contains(path, L_tools_call) THEN "read_write" ELSE "read_only"

\* (resourceType, resourceName, requiredLevel)
getResourceInfoFromPath(path) ==
    IF HasPrefix(path, L_pfx_blockchain)
    THEN <<"api_endpoint", <<"blockchain_", extractBlockchainResource(path)>>, "read_only">>
    ELSE IF HasPrefix(path, L_pfx_agents)
    THEN <<"api_endpoint", <<"agent_chat">>, getAgentAccessLevel(path)>>
    ELSE IF HasPrefix(path, L_pfx_mcp)
    THEN <<"mcp_tool", <<extractMCPResource(path)>>, getMCPAccessLevel(path)>>
    ELSE IF HasPrefix(path, L_pfx_gateway)
    THEN <<"api_endpoint", <<"gateway_management">>, "read_only">>
    ELSE <<"", <<>>, "">>

\* variant: the call is made for every path
NeedsAccessCheck_always(path) == TRUE

\* checkResourcePermissions skips the call when resourceType or requiredLevel is ""
NeedsAccessCheck(path) ==
    LET info == getResourceInfoFromPath(path) IN ~(info[1] = "" \/ info[3] = "")

\* outcomes of one POST to the identity / authorization service:
\*   "ok"      200 and a JSON body with valid / has_access = true
\*   "no"      200 and a JSON body with valid / has_access = false
\*   "error"   transport error, timeout or a non-200 status (makeAuthServiceRequest err)
\*   "garbled" 200 and a body json.Unmarshal rejects
CallOutcomes == {"ok", "no", "error", "garbled"}

\* variant: a failed identity call lets the token through (fail-open identity)
TokenAccepted_failOpen(outcome) == outcome \in {"ok", "error"}

\* handleJWTAuth, lines 184-199: the token is accepted only on a parsed valid=true
TokenAccepted(outcome) == outcome = "ok"

\* handleAPIKeyAuth, lines 252-267: the key is accepted only on a parsed valid=true
KeyAccepted(outcome) == outcome = "ok"

\* variant: has_access is not looked at
AccessDecision_allowAll(outcome) == TRUE

\* variant: only a parsed has_access=true allows (fail-closed)
AccessDecision_failClosed(outcome) == outcome = "ok"

\* the boolean checkResourcePermissions returns for an outcome of /check-access
AccessDecision(outcome) ==
    CASE outcome = "error"   -> TRUE
      [] outcome = "garbled" -> TRUE
      [] outcome = "no"      -> FALSE
      [] OTHER               -> TRUE

\* handleJWTAuth, lines 159-173: the token of an "Authorization: Bearer <token>" header
BearerToken(authHeader) ==
    IF authHeader = <<>> THEN <<>>
    ELSE LET parts == SplitN2(authHeader, " ") IN
         IF Len(parts) # 2 \/ parts[1] # L_Bearer THEN <<>> ELSE parts[2]

\* handleAPIKeyAuth, lines 230-238: header, then query, then cookie
APIKeyOf(r) ==
    IF r.keyHeader # "" THEN r.keyHeader
    ELSE IF r.keyQuery # "" THEN r.keyQuery
    ELSE r.keyCookie

(* ---------------- gateway wiring: SetupHTTPRoutes ----------------------- *)

\* cors / rateLimit: Security.CORS.Enabled, Security.RateLimit.Enabled;
\* blockchain: blockchain.NewGateway succeeded (g.blockchainGateway != nil)
Configs ==
    { [cors |-> TRUE,  rateLimit |-> TRUE,  blockchain |-> TRUE],
      [cors |-> FALSE, rateLimit |-> FALSE, blockchain |-> FALSE] }

\* Security.RateLimit.Burst of the modelled configuration
Burst == 2

\* router.Use(...) in the order of the calls
GlobalChain(c) ==
    <<"Recovery", "RequestLogger", "RequestID">>
      \o (IF c.cors THEN <<"CORS">> ELSE <<>>)
      \o (IF c.rateLimit THEN <<"RateLimit">> ELSE <<>>)

\* the route table: method, pattern, group middleware, handler
Routes(c) ==
    <<  [method |-> "GET",  pattern |-> R_health,      mw |-> <<>>, handler |-> "healthCheck"],
        [method |-> "GET",  pattern |-> R_ready,       mw |-> <<>>, handler |-> "readinessCheck"],
        [method |-> "GET",  pattern |-> R_gw_services, mw |-> <<"UnifiedAuthentication">>, handler |-> "listServices"],
        [method |-> "GET",  pattern |-> R_gw_metrics,  mw |-> <<"UnifiedAuthentication">>, handler |-> "getMetrics"],
        [method |-> "GET",  pattern |-> R_gw_health,   mw |-> <<"UnifiedAuthentication">>, handler |-> "servicesHealth"] >>
    \o (IF c.blockchain THEN
     << [method |-> "GET",  pattern |-> R_bc_status,      mw |-> <<"UnifiedAuthentication">>, handler |-> "blockchainStatus"],
        [method |-> "GET",  pattern |-> R_bc_balance,     mw |-> <<"UnifiedAuthentication">>, handler |-> "getBalance"],
        [method |-> "POST", pattern |-> R_bc_transaction, mw |-> <<"UnifiedAuthentication">>, handler |-> "sendTransaction"],
        [method |-> "GET",  pattern |-> R_bc_transaction_hash, mw |-> <<"UnifiedAuthentication">>, handler |-> "getTransaction"],
        [method |-> "GET",  pattern |-> R_bc_block,       mw |-> <<"UnifiedAuthentication">>, handler |-> "getBlock"] >>
        ELSE <<>>)

\* gin's route match: same number of segments, a ":name" segment matches any
\* non-empty segment, every other segment matches itself
SegmentMatches(pseg, seg) ==
    IF Len(pseg) > 0 /\ pseg[1] = ":" THEN Len(seg) > 0 ELSE pseg = seg

RouteMatches(route, method, path) ==
    LET ps == Split(route.pattern, "/")
        ss == Split(path, "/")
    IN  /\ route.method = method
        /\ Len(ps) = Len(ss)
        /\ \A i \in 1..Len(ps) : SegmentMatches(ps[i], ss[i])

\* the handlers gin runs after the global ones: the matched route's group
\* middleware and handler, or the NoRoute handler
RouteChain(c, method, path) ==
    LET rs == Routes(c) IN
    IF \E i \in 1..Len(rs) : RouteMatches(rs[i], method, path)
    THEN LET i == CHOOSE i \in 1..Len(rs) : RouteMatches(rs[i], method, path)
         IN  rs[i].mw \o <<rs[i].handler>>
    ELSE <<"DynamicProxy">>

RouteHandlers ==
    { "handler", "healthCheck", "readinessCheck", "listServices", "getMetrics",
      "servicesHealth", "blockchainStatus", "getBalance", "sendTransaction",
      "getTransaction", "getBlock" }

\* statuses a route handler can answer with
HandlerStatuses(h) ==
    CASE h \in {"healthCheck", "listServices", "getMetrics", "handler"} -> {200}
      [] h \in {"readinessCheck", "servicesHealth"} -> {200, 503}
      [] h = "sendTransaction" -> {200, 400, 500, 503}
      [] OTHER -> {200, 400, 500, 503}

(* ---------------- dynamic proxy: NewDynamicProxy / Handler -------------- *)

\* variant: the static map also has an entry for payments
StaticServices_withPayments == {N_users, N_accounts, N_auth, N_agents, N_models, N_mcp, N_payments}

\* dp.services / dp.proxies: the static fallback map
StaticServices == {N_users, N_accounts, N_auth, N_agents, N_models, N_mcp}

\* the logical service name of an /api/v1/{service}/... path
ServiceNameOf(path) ==
    LET parts == Split(TrimPrefix(path, L_api_v1), "/") IN
    IF parts[1] = N_users /\ Len(parts) >= 3 /\ parts[3] = N_sessions
    THEN N_sessions ELSE parts[1]

\* dp.registry.GetHealthyInstance(name): found = (err == nil), tags = instance.Tags
GetHealthyInstance(consul, name) ==
    IF consul.up /\ \E e \in consul.healthy : e[1] = name
    THEN [found |-> TRUE, tags |-> (CHOOSE e \in consul.healthy : e[1] = name)[2]]
    ELSE [found |-> FALSE, tags |-> {}]

\* variant: only the tag "sse" selects the SSE proxy
hasSSE_sseOnly(tags) == "sse" \in tags

hasSSE(tags) == "sse" \in tags \/ "streaming" \in tags

NotForwarded == [via |-> "none", strategy |-> "", service |-> <<>>]

\* variant: a statically configured service is never looked up in the registry
RouteDecision_staticFirst(consul, path) ==
    LET name == ServiceNameOf(path)
        inst == IF consul.nil THEN [found |-> FALSE, tags |-> {}]
                ELSE GetHealthyInstance(consul, name)
    IN  IF name \in StaticServices
        THEN [via |-> "static", strategy |-> "standard", service |-> name]
        ELSE IF inst.found
        THEN [via |-> "registry", strategy |-> IF hasSSE(inst.tags) THEN "sse" ELSE "standard",
              service |-> name]
        ELSE NotForwarded

\* the routing decision of Handler for an /api/v1/{service}/... path
RouteDecision(consul, path) ==
    LET name == ServiceNameOf(path)
        inst == IF consul.nil THEN [found |-> FALSE, tags |-> {}]
                ELSE GetHealthyInstance(consul, name)
    IN  IF inst.found
        THEN [via |-> "registry", strategy |-> IF hasSSE(inst.tags) THEN "sse" ELSE "standard",
              service |-> name]
        ELSE IF name \in StaticServices
        THEN [via |-> "static", strategy |-> "standard", service |-> name]
        ELSE NotForwarded

\* dp.services: the configured endpoint behind each static name
StaticTarget(name) ==
    CASE name = N_users -> "UserService" [] name = N_accounts -> "UserService"
      [] name = N_auth -> "AuthService" [] name = N_agents -> "AgentService"
      [] name = N_models -> "ModelService" [] name = N_mcp -> "MCPService"
      [] OTHER -> ""

\* the path of the target URL "http://host:port" the reverse proxies are built on
TargetPath == <<>>

\* net/http/httputil: the Director of NewSingleHostReverseProxy joins the target
\* path and the inbound path with exactly one slash between them
singleJoiningSlash(a, b) ==
    LET aslash == Len(a) > 0 /\ a[Len(a)] = "/"
        bslash == Len(b) > 0 /\ b[1] = "/"
    IN  IF aslash /\ bslash THEN a \o SubSeq(b, 2, Len(b))
        ELSE IF ~aslash /\ ~bslash THEN a \o <<"/">> \o b
        ELSE a \o b

\* the path a reverse proxy of NewDynamicProxy or Handler sends upstream
ReverseProxyPath(path) == singleJoiningSlash(TargetPath, path)

\* the path proxySSE sends upstream
L_pfx_models == <<"/", "a", "p", "i", "/", "v", "1", "/", "m", "o", "d", "e", "l", "s", "/">>
proxySSEPath(path) ==
    IF HasPrefix(path, L_pfx_agents) \/ HasPrefix(path, L_pfx_models) THEN path
    ELSE IF HasPrefix(path, L_api_v1)
    THEN LET parts == SplitN2(TrimPrefix(path, L_api_v1), "/") IN
         IF Len(parts) > 1 THEN <<"/">> \o parts[2] ELSE <<"/">>
    ELSE path

\* the path proxyHTTP sends upstream
proxyHTTPPath(path) ==
    IF HasPrefix(path, L_pfx_agents) \/ HasPrefix(path, L_pfx_models) THEN path
    ELSE IF HasPrefix(path, L_api_v1)
    THEN LET parts == SplitN2(TrimPrefix(path, L_api_v1), "/") IN
         IF Len(parts) > 1 THEN <<"/">> \o parts[2] ELSE <<"/">>
    ELSE path

\* SSEProxy.Handler: proxySSE when the client accepts an event stream
L_text_event_stream == <<"t", "e", "x", "t", "/", "e", "v", "e", "n", "t", "-", "s", "t", "r", "e", "a", "m">>
L_accept_any == <<"*", "/", "*">>
AcceptsEventStream(accept) ==
    Contains(accept, L_text_event_stream) \/ Contains(accept, L_accept_any)

\* which proxy serves a routing decision
ProxyFor(d, accept) ==
    IF d.via = "static" THEN "static"
    ELSE IF d.strategy = "standard" THEN "instance"
    ELSE IF AcceptsEventStream(accept) THEN "proxySSE"
    ELSE "proxyHTTP"

\* what the upstream call returns: a transport error, or a response with a
\* status, a Content-Type that is or is not text/event-stream, and with or
\* without CORS headers of its own
UpstreamStatuses == {200, 404}
UpstreamReplies ==
    { [err |-> TRUE, status |-> 0, eventStream |-> FALSE, cors |-> FALSE] }
      \cup [err : {FALSE}, status : UpstreamStatuses, eventStream : BOOLEAN, cors : BOOLEAN]
NoReply == [err |-> FALSE, status |-> 0, eventStream |-> FALSE, cors |-> FALSE]

NoUpstream == [called |-> FALSE, by |-> "", target |-> <<>>, path |-> <<>>, reply |-> NoReply]

\* the headers of an upstream response
UpstreamHeaders(u) ==
    {"Content-Type", "Connection"}
      \cup (IF u.cors THEN {"Access-Control-Allow-Origin", "Access-Control-Allow-Methods"} ELSE {})

\* the headers ModifyResponse deletes
DeletedHeaders ==
    { "Access-Control-Allow-Origin", "Access-Control-Allow-Methods",
      "Access-Control-Allow-Headers", "Access-Control-Allow-Credentials",
      "Access-Control-Max-Age", "Access-Control-Expose-Headers" }

hopByHopHeaders ==
    { "Connection", "Keep-Alive", "Proxy-Authenticate", "Proxy-Authorization", "TE",
      "Trailers", "Transfer-Encoding", "Upgrade" }
isHopByHopHeader(header) == header \in hopByHopHeaders

\* headers the reverse proxies pass to the client: hop-by-hop headers are
\* removed by httputil, then ModifyResponse runs
ReverseProxyHeaders(u) ==
    { <<h, "upstream">> : h \in (UpstreamHeaders(u) \ hopByHopHeaders) \ DeletedHeaders }

\* headers copyResponse passes to the client
copyResponseHeaders(u) ==
    { <<h, "upstream">> : h \in { k \in UpstreamHeaders(u) : ~isHopByHopHeader(k) } }

\* headers proxySSE sets itself before streaming
StreamHeaders ==
    { <<"Content-Type", "gateway">>, <<"Cache-Control", "gateway">>,
      <<"Connection", "gateway">>, <<"X-Accel-Buffering", "gateway">> }

\* bodies of an event stream: at most MaxBody bytes of data, CR and LF
MaxBody == 4
BodyChars == {"d", "\r", "\n"}
Bodies == UNION { [1..n -> BodyChars] : n \in 0..MaxBody }

\* variant: a carriage return before the line end is kept
dropCR_keep(data) == data

\* bufio.ScanLines on the unread bytes, up to end of file
dropCR(data) ==
    IF Len(data) > 0 /\ data[Len(data)] = "\r" THEN SubSeq(data, 1, Len(data) - 1) ELSE data

ScanLines(data) ==
    LET i == IndexOf(data, "\n") IN
    IF i > 0
    THEN [token |-> dropCR(SubSeq(data, 1, i - 1)), rest |-> SubSeq(data, i + 1, Len(data))]
    ELSE [token |-> dropCR(data), rest |-> <<>>]

NoStream == [body |-> <<>>, rest |-> <<>>, out |-> <<>>, flushes |-> <<>>, end |-> ""]


(* ---------------- MQTT adapter: pure helpers ---------------------------- *)

L_plus == <<"+">>
L_hash == <<"#">>
L_devices == <<"d", "e", "v", "i", "c", "e", "s">>
DeviceTelemetry == <<"d", "e", "v", "i", "c", "e", "s", "/", "+", "/", "t", "e", "l", "e", "m", "e", "t", "r", "y">>
DeviceStatus == <<"d", "e", "v", "i", "c", "e", "s", "/", "+", "/", "s", "t", "a", "t", "u", "s">>
DeviceCommandsResponse == <<"d", "e", "v", "i", "c", "e", "s", "/", "+", "/", "c", "o", "m", "m", "a", "n", "d", "s", "/", "r", "e", "s", "p", "o", "n", "s", "e">>
DeviceAuth == <<"d", "e", "v", "i", "c", "e", "s", "/", "+", "/", "a", "u", "t", "h">>
DeviceRegistration == <<"d", "e", "v", "i", "c", "e", "s", "/", "r", "e", "g", "i", "s", "t", "e", "r">>
T_d1_telemetry == <<"d", "e", "v", "i", "c", "e", "s", "/", "d", "1", "/", "t", "e", "l", "e", "m", "e", "t", "r", "y">>
T_empty_telemetry == <<"d", "e", "v", "i", "c", "e", "s", "/", "/", "t", "e", "l", "e", "m", "e", "t", "r", "y">>
T_d1_status == <<"d", "e", "v", "i", "c", "e", "s", "/", "d", "1", "/", "s", "t", "a", "t", "u", "s">>
T_d1_response == <<"d", "e", "v", "i", "c", "e", "s", "/", "d", "1", "/", "c", "o", "m", "m", "a", "n", "d", "s", "/", "r", "e", "s", "p", "o", "n", "s", "e">>
T_d1_auth == <<"d", "e", "v", "i", "c", "e", "s", "/", "d", "1", "/", "a", "u", "t", "h">>
T_telemetry == <<"d", "e", "v", "i", "c", "e", "s", "/", "t", "e", "l", "e", "m", "e", "t", "r", "y">>
T_a_b_telemetry == <<"d", "e", "v", "i", "c", "e", "s", "/", "a", "/", "b", "/", "t", "e", "l", "e", "m", "e", "t", "r", "y">>
T_a == <<"d", "e", "v", "i", "c", "e", "s", "/", "a">>
T_a_b == <<"d", "e", "v", "i", "c", "e", "s", "/", "a", "/", "b">>
T_a_b_c == <<"d", "e", "v", "i", "c", "e", "s", "/", "a", "/", "b", "/", "c">>
S_devices_hash == <<"d", "e", "v", "i", "c", "e", "s", "/", "#">>
L_api_devices == <<"/", "a", "p", "i", "/", "v", "1", "/", "d", "e", "v", "i", "c", "e", "s">>
L_sfx_telemetry == <<"/", "t", "e", "l", "e", "m", "e", "t", "r", "y">>
L_sfx_status == <<"/", "s", "t", "a", "t", "u", "s">>
L_sfx_auth_response == <<"/", "a", "u", "t", "h", "/", "r", "e", "s", "p", "o", "n", "s", "e">>
L_sfx_register_response == <<"/", "r", "e", "g", "i", "s", "t", "e", "r", "/", "r", "e", "s", "p", "o", "n", "s", "e">>
D_other == <<"o", "t", "h", "e", "r">>
N_2p53_plus1 == <<"9", "0", "0", "7", "1", "9", "9", "2", "5", "4", "7", "4", "0", "9", "9", "3">>
N_2p53_plus3 == <<"9", "0", "0", "7", "1", "9", "9", "2", "5", "4", "7", "4", "0", "9", "9", "5">>
L_2p53 == <<"9", "0", "0", "7", "1", "9", "9", "2", "5", "4", "7", "4", "0", "9", "9", "2">>
N_small == <<"4", "2">>
N_half == <<"2", "3", ".", "5">>
L_new_device == <<"d", "e", "v", "i", "c", "e", "_", "0">>

\* config.Topics in the order onConnect lists them
ConfiguredTopics ==
    <<DeviceTelemetry, DeviceStatus, DeviceCommandsResponse, DeviceAuth, DeviceRegistration>>

\* the handler map NewAdapter leaves behind: pattern -> handler
setupDefaultHandlers ==
    (DeviceTelemetry :> "handleTelemetry") @@ (DeviceStatus :> "handleDeviceStatus")
    @@ (DeviceCommandsResponse :> "handleCommandResponse")
    @@ (DeviceAuth :> "handleDeviceAuth")
    @@ (DeviceRegistration :> "handleDeviceRegistration")

\* topics an application subscribes through Subscribe, with its own handler
CustomTopics == {S_devices_hash}

\* topics of the messages the client library hands to handleMessage
MessageTopics ==
    { T_d1_telemetry, T_empty_telemetry, T_d1_status, T_d1_response, T_d1_auth,
      DeviceRegistration, T_telemetry, T_a_b_telemetry, T_a, T_a_b, T_a_b_c }

RECURSIVE matchParts(_, _, _)
matchParts(patternParts, topicParts, i) ==
    IF i > Len(patternParts) THEN TRUE
    ELSE IF /\ patternParts[i] # L_plus /\ patternParts[i] # L_hash
            /\ patternParts[i] # topicParts[i]
         THEN FALSE
         ELSE IF patternParts[i] = L_hash THEN TRUE
              ELSE matchParts(patternParts, topicParts, i + 1)

\* a matcher for which "+" ends the comparison as "#" does
matchTopic_plusAsTail(pattern, topic) ==
    LET patternParts == Split(pattern, "/")
        topicParts == Split(topic, "/")
        k == CHOOSE n \in 1..Len(patternParts) + 1 :
                /\ n = Len(patternParts) + 1 \/ patternParts[n] \in {L_plus, L_hash}
                /\ \A m \in 1..n - 1 : patternParts[m] \notin {L_plus, L_hash}
    IN /\ Len(patternParts) = Len(topicParts)
       /\ \A m \in 1..k - 1 : patternParts[m] = topicParts[m]

matchTopic(pattern, topic) ==
    LET patternParts == Split(pattern, "/")
        topicParts == Split(topic, "/")
    IN IF Len(patternParts) # Len(topicParts) THEN FALSE
       ELSE matchParts(patternParts, topicParts, 1)

\* the patterns of a handler map under which handleMessage can find the topic
Matching(hs, topic) == { p \in DOMAIN hs : matchTopic(p, topic) }

RECURSIVE InSomeOrder(_)
InSomeOrder(S) ==
    IF S = {} THEN <<>>
    ELSE LET p == CHOOSE x \in S : TRUE IN <<p>> \o InSomeOrder(S \ {p})

\* a dispatch that goes on after the first matching pattern
Dispatch_everyMatch(hs, topic) == { InSomeOrder(Matching(hs, topic)) }

\* handleMessage's loop: the patterns whose handlers it invokes, in order.
\* The map is ranged over in an unspecified order and the loop returns after
\* the first match, so any one matching pattern can be the one
Dispatch(hs, topic) ==
    IF Matching(hs, topic) = {} THEN { <<>> }
    ELSE { <<p>> : p \in Matching(hs, topic) }

extractDeviceID(topic) ==
    LET parts == Split(topic, "/") IN
    IF Len(parts) >= 2 /\ parts[1] = L_devices THEN parts[2] ELSE <<>>

(* JSON numbers are kept as their decimal text: json.Unmarshal into
   map[string]interface{} stores every number as a float64, json.Marshal
   writes a float64 back as the shortest decimal that reads as the same
   float64 (for an integer below 1e21, its digits) *)
Digits == <<"0", "1", "2", "3", "4", "5", "6", "7", "8", "9">>
DigitValue(ch) == (CHOOSE n \in 1..10 : Digits[n] = ch) - 1

RECURSIVE AtLeast(_, _)
\* a >= b for two digit strings of one length
AtLeast(a, b) ==
    IF a = <<>> THEN TRUE
    ELSE IF Head(a) # Head(b) THEN DigitValue(Head(a)) > DigitValue(Head(b))
         ELSE AtLeast(Tail(a), Tail(b))

RECURSIVE Successor(_)
Successor(t) ==
    IF t = <<>> THEN <<"1">>
    ELSE LET n == Len(t) last == DigitValue(t[n]) IN
         IF last < 9 THEN SubSeq(t, 1, n - 1) \o <<Digits[last + 2]>>
         ELSE Successor(SubSeq(t, 1, n - 1)) \o <<"0">>

\* a parser that keeps every digit
ParseFloat_exact(t) == t

\* strconv.ParseFloat(t, 64) on a decimal text of at most sixteen integer
\* digits, as the decimal text of the float64 it yields.  Below 2^53
\* every integer is a float64; from 2^53 to 2^54 only the even ones are, and an
\* odd one goes to the neighbour with the even mantissa (a multiple of 4).
\* The fractional texts of the model are halves of small integers, all exact
ParseFloat(t) ==
    IF Contains(t, <<".">>) \/ Len(t) < Len(L_2p53) \/ ~AtLeast(t, L_2p53) THEN t
    ELSE LET n == Len(t)
             lastTwo == 10 * DigitValue(t[n - 1]) + DigitValue(t[n])
         IN IF lastTwo % 2 = 0 THEN t
            ELSE IF lastTwo % 4 = 1
                 THEN SubSeq(t, 1, n - 1) \o <<Digits[DigitValue(t[n])]>>
                 ELSE Successor(t)

\* payloads of the delivered messages: raw bytes that are no JSON, the JSON
\* texts null and [..], and JSON objects as member name -> value token
Number(t) == [type |-> "number", text |-> t]
String(s) == [type |-> "string", text |-> s]
Payloads ==
    { [kind |-> "raw"], [kind |-> "null"], [kind |-> "array"],
      [kind |-> "object", members |-> [temperature |-> Number(N_half)]],
      [kind |-> "object", members |-> [device_id |-> String(D_other), seq |-> Number(N_small)]],
      [kind |-> "object", members |-> [ts |-> Number(N_2p53_plus1)]],
      [kind |-> "object", members |-> [ts |-> Number(N_2p53_plus3)]] }

\* json.Unmarshal(payload, &m) with m a nil map[string]interface{}: null
\* leaves the map nil, anything but an object or null is an error
Unmarshal(payload) ==
    CASE payload.kind = "object" ->
           [err |-> FALSE, nil |-> FALSE,
            map |-> [k \in DOMAIN payload.members |->
                       IF payload.members[k].type = "number"
                       THEN [type |-> "float64", value |-> ParseFloat(payload.members[k].text)]
                       ELSE [type |-> "string", value |-> payload.members[k].text]]]
      [] payload.kind = "null" -> [err |-> FALSE, nil |-> TRUE, map |-> <<>>]
      [] OTHER -> [err |-> TRUE, nil |-> TRUE, map |-> <<>>]

\* json.Marshal of such a map, as the JSON text it writes
Marshal(m) ==
    IF m.nil THEN [kind |-> "null"]
    ELSE [kind |-> "object",
          members |-> [k \in DOMAIN m.map |->
                         IF m.map[k].type = "float64" THEN Number(m.map[k].value)
                         ELSE String(m.map[k].value)]]

NoEffect == [err |-> "", posts |-> <<>>, published |-> <<>>]

\* forwardToService; code is the status the service answers with
forwardToService(enabled, serviceName, endpoint, data, code) ==
    IF ~enabled THEN NoEffect
    ELSE [err |-> IF code >= 400 THEN "service returned error" ELSE "",
          posts |-> << [service |-> serviceName, method |-> "POST", path |-> endpoint,
                        body |-> Marshal(data)] >>,
          published |-> <<>>]

\* telemetry["device_id"] = deviceID when the key is absent
WithDeviceID(m, deviceID) ==
    IF "device_id" \in DOMAIN m.map THEN m
    ELSE [m EXCEPT !.map = ("device_id" :> [type |-> "string", value |-> deviceID]) @@ m.map]

\* on a nil map (a null payload) the assignment of device_id panics
handleTelemetry(topic, payload, enabled, code) ==
    LET deviceID == extractDeviceID(topic)
        telemetry == Unmarshal(payload)
    IN IF telemetry.err THEN [NoEffect EXCEPT !.err = "unmarshal"]
       ELSE IF telemetry.nil THEN [NoEffect EXCEPT !.err = "panic"]
       ELSE forwardToService(enabled, "telemetry_service",
                             L_api_devices \o <<"/">> \o deviceID \o L_sfx_telemetry,
                             WithDeviceID(telemetry, deviceID), code)

handleDeviceStatus(topic, payload, enabled, code) ==
    LET deviceID == extractDeviceID(topic)
        statusData == Unmarshal(payload)
    IN IF statusData.err THEN [NoEffect EXCEPT !.err = "unmarshal"]
       ELSE IF statusData.nil THEN [NoEffect EXCEPT !.err = "panic"]
       ELSE forwardToService(enabled, "device_service",
                             L_api_devices \o <<"/">> \o deviceID \o L_sfx_status,
                             WithDeviceID(statusData, deviceID), code)

handleCommandResponse(topic, payload) ==
    IF Unmarshal(payload).err THEN [NoEffect EXCEPT !.err = "unmarshal"] ELSE NoEffect

\* authenticateDevice is a stub that always succeeds
handleDeviceAuth(topic, payload) ==
    IF Unmarshal(payload).err THEN [NoEffect EXCEPT !.err = "unmarshal"]
    ELSE [NoEffect EXCEPT !.published =
            <<L_devices \o <<"/">> \o extractDeviceID(topic) \o L_sfx_auth_response>>]

\* registerDevice forwards the registration and makes up a device id
handleDeviceRegistration(topic, payload, enabled, code) ==
    LET regData == Unmarshal(payload)
        sent == forwardToService(enabled, "device_service", L_api_devices, regData, code)
    IN IF regData.err THEN [NoEffect EXCEPT !.err = "unmarshal"]
       ELSE IF sent.err # "" THEN sent
       ELSE [sent EXCEPT !.published =
               <<L_devices \o <<"/">> \o L_new_device \o L_sfx_register_response>>]

\* what running the named handler does
HandlerEffect(name, topic, payload, enabled, code) ==
    CASE name = "handleTelemetry" -> handleTelemetry(topic, payload, enabled, code)
      [] name = "handleDeviceStatus" -> handleDeviceStatus(topic, payload, enabled, code)
      [] name = "handleCommandResponse" -> handleCommandResponse(topic, payload)
      [] name = "handleDeviceAuth" -> handleDeviceAuth(topic, payload)
      [] name = "handleDeviceRegistration" -> handleDeviceRegistration(topic, payload, enabled, code)
      [] OTHER -> NoEffect

\* the topics onConnect subscribes again: the configured ones with a handler
Resubscribed(hs) ==
    { ConfiguredTopics[i] : i \in { j \in DOMAIN ConfiguredTopics : ConfiguredTopics[j] \in DOMAIN hs } }

\* the client library's route match (MQTT topic filters): "+" is one level,
\* a trailing "#" is the rest, the parent level included
RECURSIVE routeMatch(_, _)
routeMatch(route, topic) ==
    IF route = <<>> THEN topic = <<>>
    ELSE IF Head(route) = L_hash THEN TRUE
    ELSE IF topic = <<>> THEN FALSE
    ELSE /\ Head(route) = L_plus \/ Head(route) = Head(topic)
         /\ routeMatch(Tail(route), Tail(topic))

Routed(filters, topic) ==
    \E f \in filters : routeMatch(Split(f, "/"), Split(topic, "/"))

MqttConfigs == [cleanSession : BOOLEAN, deviceEnabled : BOOLEAN]
ServiceCodes == {200, 500}
NoDelivery ==
    [topic |-> <<>>, payload |-> [kind |-> "raw"], patterns |-> {}, invoked |-> <<>>,
     ran |-> <<>>, effect |-> NoEffect]

(* ---------------- blockchain facade: pure helpers ----------------------- *)

ContractFields ==
    { "ISATokenAddress", "UsageBillingAddress", "ISANFTAddress", "ServiceRegistryAddress",
      "SimpleDEXAddress" }
AllContracts == [f \in ContractFields |-> "0xC0"]
ContractSettings ==
    {AllContracts} \cup { [AllContracts EXCEPT ![f] = ""] : f \in ContractFields }
    \cup { [f \in ContractFields |-> ""] }

\* config.Blockchain: Enabled, whether Chains holds the default chain's name,
\* and that chain's Contracts.  NewGateway fails when blockchain is enabled and
\* the default chain is missing, so no facade exists for that configuration
FacadeConfigs ==
    { c \in [enabled : BOOLEAN, chainConfigured : BOOLEAN, contracts : ContractSettings] :
        c.enabled => c.chainConfigured }

ChainTypeISA == "isa_chain"

getContractAddress(c, contractType) ==
    IF ~c.chainConfigured THEN [err |-> TRUE, address |-> ""]
    ELSE CASE contractType \in {"reward_token", "isa_token"} ->
                [err |-> FALSE, address |-> c.contracts.ISATokenAddress]
           [] contractType \in {"billing", "usage_billing"} ->
                [err |-> FALSE, address |-> c.contracts.UsageBillingAddress]
           [] contractType \in {"service_nft", "isa_nft"} ->
                [err |-> FALSE, address |-> c.contracts.ISANFTAddress]
           [] contractType = "service_registry" ->
                [err |-> FALSE, address |-> c.contracts.ServiceRegistryAddress]
           [] contractType \in {"dex", "simple_dex"} ->
                [err |-> FALSE, address |-> c.contracts.SimpleDEXAddress]
           [] OTHER -> [err |-> TRUE, address |-> ""]

Failed(op, why) == [op |-> op, err |-> why, calls |-> <<>>]

\* a call of an adapter method: every one of them first reads the flag
AdapterCall(op, conn, method, addresses) ==
    [op |-> op, err |-> IF conn THEN "" ELSE "not connected to isA_Chain",
     calls |-> << [method |-> method, addresses |-> addresses] >>]

\* the shape five of the six operations share: GetDefaultChain, one address
\* from getContractAddress, the check for an empty address, the adapter call
WithContract(op, c, dc, conn, contractType, method) ==
    LET a == getContractAddress(c, contractType) IN
    IF dc = "" THEN Failed(op, "no default chain set")
    ELSE IF a.err THEN Failed(op, "failed to get contract address")
    ELSE IF a.address = "" THEN Failed(op, "contract not configured")
    ELSE AdapterCall(op, conn, method, <<a.address>>)

MintRewardTokens(c, dc, conn) ==
    WithContract("mint_reward_tokens", c, dc, conn, "reward_token", "ExecuteContract")
DeductServiceTokens(c, dc, conn) ==
    WithContract("deduct_service_tokens", c, dc, conn, "billing", "ExecuteContract")
MintServiceCertificate(c, dc, conn) ==
    WithContract("mint_service_certificate", c, dc, conn, "service_nft", "MintNFT")
VerifyServiceAccess(c, dc, conn) ==
    WithContract("verify_service_access", c, dc, conn, "service_registry", "CallContract")
GetServicePricing(c, dc, conn) ==
    WithContract("get_service_pricing", c, dc, conn, "service_registry", "CallContract")

\* the service token's address is resolved after the DEX's and passed on as
\* it comes
SwapTokensForService(c, dc, conn) ==
    LET op == "swap_tokens_for_service"
        dex == getContractAddress(c, "dex")
        serviceToken == getContractAddress(c, "isa_token")
    IN IF dc = "" THEN Failed(op, "no default chain set")
       ELSE IF dex.err THEN Failed(op, "failed to get contract address")
       ELSE IF dex.address = "" THEN Failed(op, "contract not configured")
       ELSE IF serviceToken.err THEN Failed(op, "failed to get contract address")
       ELSE AdapterCall(op, conn, "SwapTokens", <<dex.address, serviceToken.address>>)

Operations ==
    { "mint_reward_tokens", "deduct_service_tokens", "mint_service_certificate",
      "verify_service_access", "swap_tokens_for_service", "get_service_pricing" }

FacadeOperation(op, c, dc, conn) ==
    CASE op = "mint_reward_tokens" -> MintRewardTokens(c, dc, conn)
      [] op = "deduct_service_tokens" -> DeductServiceTokens(c, dc, conn)
      [] op = "mint_service_certificate" -> MintServiceCertificate(c, dc, conn)
      [] op = "verify_service_access" -> VerifyServiceAccess(c, dc, conn)
      [] op = "swap_tokens_for_service" -> SwapTokensForService(c, dc, conn)
      [] OTHER -> GetServicePricing(c, dc, conn)

NoOutcome == [op |-> "", err |-> "", calls |-> <<>>]

(* ---------------- state ------------------------------------------------- *)

VARIABLES
    consul,      \* the registry as the gateway sees it
    cfg,         \* the configuration switches of SetupHTTPRoutes
    tokens,      \* tokens in the global rate limiter's bucket
    backToBack,  \* the requests that met the limiter since its last refill
    req,         \* the request being served (NoRequest when idle)
    chain,       \* gin: c.handlers
    index,       \* gin: position in c.handlers of the handler to run
    aborted,     \* gin: c.Abort() was called
    pc,          \* "idle", "run" (engine), "jwt" / "perm" / "apikey" / "reject"
                 \* (inside UnifiedAuthentication), "done"
    status,      \* status line written to the client, 0 = none yet
    bodies,      \* bodies written to the client, in order
    ctx,         \* gin context keys set by c.Set
    calls,       \* outbound calls made for this request
    outcomes,    \* what each outbound call returned ("" = not called)
    flow,        \* authentication steps entered, in order
    selector,    \* the resource selector checkResourcePermissions derived
    handlerRan,  \* the route handler or proxy that ran ("" = none)
    forwarded,   \* the upstream target the proxy used
    upstream,    \* the call the proxy made upstream and what came back
    respHeaders, \* headers of the client response, each with its origin
    stream,      \* the event stream: unread upstream bytes, bytes written, flushes
    mqttCfg,     \* MQTT adapter: config.CleanSession, deviceConfig.Enabled
    handlers,    \* MQTT adapter: a.handlers, pattern -> handler
    isConnected, \* MQTT adapter: a.isConnected
    link,        \* MQTT client: "none" (no client), "up", "lost"
    subs,        \* the topic filters the broker holds for the client
    delivered,   \* the last message handed to handleMessage and what it did
    mu,          \* a.mu: the writer and the readers holding it
    thr,         \* the goroutines inside the adapter and where each one is
    chainCfg,    \* blockchain facade: config.Blockchain
    chains,      \* blockchain facade: the chain types in g.chains
    defaultChain,\* blockchain facade: g.defaultChain ("" = unset)
    connected,   \* ISA chain adapter: a.connected
    gmu,         \* g.mu: the writer and the readers holding it
    callers,     \* the goroutines inside the facade and the statement each is at
    outcome,     \* the last high-level facade operation: its error and its adapter calls
    seen,        \* the values of a.connected each facade goroutine has read in its run
    adapterAt,   \* blockchain facade: g.chains[t], the adapter registered for each chain type
    rpcClient,   \* ISA chain adapter: a.client was created
    ret,         \* the last call on the facade, the adapter or a blockchain endpoint, and what it returned
    reachable,   \* each backend service: "up", "slow" (no answer within a deadline) or "down"
    probe,       \* the last answer of /health or /ready
    agent,       \* the registrations the Consul agent holds, each with its check's state
    found,       \* the last call on the registry client and what it returned
    events,      \* JetStream: whether the consumer runs, each message's deliveries and state
    settled,     \* the event-bus consumer: what its callback did with each delivery
    proc,        \* the gateway process: where each of its goroutines is
    ctxDone,     \* the shared context of runGateway is cancelled
    servers,     \* the HTTP and the gRPC server: "serving", "failed", "stopping", "stopped"
    inflight     \* requests accepted by a server and not yet answered

envVars == <<consul, cfg>>
ginVars == <<req, chain, index, aborted, pc>>
respVars == <<status, bodies>>
authVars == <<ctx, calls, outcomes, flow, selector>>
downVars == <<handlerRan, forwarded, upstream, respHeaders, stream>>
limVars == <<tokens, backToBack>>
gatewayVars == <<envVars, limVars, ginVars, respVars, authVars, downVars>>
mqttVars == <<mqttCfg, handlers, isConnected, link, subs, delivered, mu, thr>>
facadeVars == <<chainCfg, chains, defaultChain, connected, gmu, callers, outcome, seen>>
chainVars == <<adapterAt, rpcClient, ret>>
readyVars == <<reachable, probe>>
registryVars == <<agent, found>>
busVars == <<events, settled>>
supVars == <<proc, ctxDone, servers, inflight>>
restVars == <<readyVars, registryVars, busVars, supVars>>
otherVars == <<chainVars, restVars>>
sideVars == <<mqttVars, facadeVars, otherVars>>
vars == <<consul, cfg, tokens, backToBack, req, chain, index, aborted, pc, status, bodies,
          ctx, calls, outcomes, flow, selector, handlerRan, forwarded,
          upstream, respHeaders, stream,
          mqttCfg, handlers, isConnected, link, subs, delivered, mu, thr,
          chainCfg, chains, defaultChain, connected, gmu, callers, outcome, seen,
          adapterAt, rpcClient, ret, reachable, probe, agent, found, events, settled,
          proc, ctxDone, servers, inflight>>

NoCtx ==
    [ user_id |-> <<>>, organization_id |-> "", is_internal |-> "", service_name |-> "",
      auth_method |-> "", access_level |-> "" ]
NoCalls == [verifyToken |-> 0, verifyAPIKey |-> 0, checkAccess |-> 0]
NoOutcomes == [verifyToken |-> "", verifyAPIKey |-> "", checkAccess |-> ""]
NoSelector == <<"", <<>>, "">>
NoRun == [requests |-> 0, rejected |-> FALSE]
Min(a, b) == IF a < b THEN a ELSE b

Idle ==
    /\ req = NoRequest /\ chain = <<>> /\ index = 0 /\ aborted = FALSE /\ pc = "idle"
    /\ status = 0 /\ bodies = <<>>
    /\ ctx = NoCtx /\ calls = NoCalls /\ outcomes = NoOutcomes /\ flow = <<>>
    /\ selector = NoSelector
    /\ handlerRan = "" /\ forwarded = NotForwarded
    /\ upstream = NoUpstream /\ respHeaders = {} /\ stream = NoStream

\* the MQTT adapter as NewAdapter returns it
Goroutines == {"app", "paho", "conn", "http"}
\* a sync.RWMutex: once a goroutine waits in Lock, RLock admits no new reader
\* a sync.RWMutex: the writer holding it, the readers holding it, the writers
\* blocked in Lock and the readers blocked in RLock
NoLock == [writer |-> "", readers |-> {}, waiting |-> {}, parked |-> {}]
Parked == [at |-> "idle", i |-> 0, topic |-> <<>>]
NewAdapter(c) ==
    /\ mqttCfg = c
    /\ handlers = setupDefaultHandlers
    /\ isConnected = FALSE /\ link = "none" /\ subs = {}
    /\ delivered = NoDelivery
    /\ mu = NoLock /\ thr = [g \in Goroutines |-> Parked]

\* the facade as NewGateway returns it: nothing registered when blockchain is
\* disabled; otherwise the ISA adapter is created and connected (its Connect
\* compares the configured chain id with itself and cannot fail), registered
\* for the ISA chain and made the default
FacadeCallers == {"close", "status", "health"}
ChainTypeEthereum == "ethereum"
ChainTypes == {ChainTypeISA, ChainTypeEthereum}
\* adapters as their constructors return them, and the zero value of a lookup
Adapters == {"isa", "eth"}
NoAdapter == "nil"
NoReturn == [call |-> "", arg |-> "", err |-> "", value |-> "", code |-> 0]
NewGateway(c) ==
    /\ chainCfg = c
    /\ chains = IF c.enabled THEN {ChainTypeISA} ELSE {}
    /\ adapterAt = [t \in ChainTypes |->
                      IF c.enabled /\ t = ChainTypeISA THEN "isa" ELSE NoAdapter]
    /\ defaultChain = IF c.enabled THEN ChainTypeISA ELSE ""
    /\ connected = c.enabled /\ rpcClient = c.enabled
    /\ gmu = NoLock /\ callers = [g \in FacadeCallers |-> "idle"]
    /\ outcome = NoOutcome /\ seen = [g \in FacadeCallers |-> <<>>]
    /\ ret = NoReturn

Subsystems == {"user_service", "auth_service", "agent_service", "model_service", "mcp_service"}
NoProbe == [path |-> "", code |-> 0, ready |-> FALSE, services |-> {}]
NoFound == [call |-> "", arg |-> "", err |-> "", instances |-> <<>>]
Messages == {"m1", "m2"}
NoEvents ==
    [consuming |-> FALSE, msg |-> [m \in Messages |-> [deliveries |-> 0, state |-> "none"]]]
Routines == {"main", "http", "grpc", "httpStop", "grpcStop"}
NotStarted == [r \in Routines |-> "none"]
NoServers == [http |-> "none", grpc |-> "none"]
\* the subsystems that none of the gateway's own goroutines touch, at rest
Apart ==
    /\ reachable = [s \in Subsystems |-> "up"] /\ probe = NoProbe
    /\ agent = {} /\ found = NoFound
    /\ events = NoEvents /\ settled = {}
    /\ proc = NotStarted /\ ctxDone = FALSE /\ servers = NoServers /\ inflight = {}

\* the subsystems beside the HTTP engine, freshly constructed
Beside ==
    /\ Apart
    /\ NewAdapter([cleanSession |-> TRUE, deviceEnabled |-> TRUE])
    /\ NewGateway([enabled |-> TRUE, chainConfigured |-> TRUE, contracts |-> AllContracts])

Init ==
    /\ consul \in ConsulStates
    /\ cfg \in Configs
    /\ tokens = Burst /\ backToBack = NoRun
    /\ Idle /\ Beside

(* ---------------- gin context operations -------------------------------- *)

\* c.JSON(code, body): the status line is fixed by the first write
JSONStatus(code) == IF status = 0 THEN code ELSE status

\* c.Next() as the last statement of a handler, or the handler returning:
\* the engine goes on with the next handler unless the chain was aborted
Continue ==
    /\ index' = index + 1
    /\ pc' = "run"

Running(name) ==
    /\ pc = "run" /\ ~aborted
    /\ index <= Len(chain)
    /\ chain[index] = name

(* ---------------- requests ---------------------------------------------- *)

\* a request entering the engine built by SetupHTTPRoutes
WiredRequests ==
    { r \in Requests :
        /\ (r.method = L_OPTIONS) => (r.origin # "")
        /\ (r.origin # "") =>
              /\ r.path \in {L_health, P_users_me}
              /\ r.serviceName = "" /\ r.authorization = <<>> /\ r.keyHeader = ""
        /\ (r.serviceSecret # "") = (r.serviceName # "")
        /\ r.authorization \in {<<>>, H_bearer_tok}
        /\ r.keyQuery = "" /\ r.keyCookie = ""
        /\ <<r.remoteAddr, r.userAgent>> \in {<<L_ip4_loopback, UA_curl>>, <<IP_remote, UA_browser>>}
        /\ r.forwardedFor = <<>>
        /\ r.accept = <<>> }

ReceiveWired ==
    /\ pc = "idle"
    /\ \E r \in WiredRequests :
         /\ req' = r
         /\ chain' = GlobalChain(cfg) \o RouteChain(cfg, r.method, r.path)
    /\ index' = 1 /\ pc' = "run"
    /\ UNCHANGED <<envVars, limVars, sideVars, aborted, respVars, authVars, downVars>>

\* a request entering UnifiedAuthentication mounted in front of a handler
\* (the middleware never reads the method)
MountedRequests ==
    { r \in Requests :
        /\ r.method = "GET" /\ r.origin = ""
        /\ r.forwardedFor = <<>> /\ r.accept = <<>>
        /\ r.userAgent \in {UA_curl, UA_browser} }

ReceiveMounted ==
    /\ pc = "idle"
    /\ \E r \in MountedRequests : req' = r
    /\ chain' = <<"UnifiedAuthentication", "handler">>
    /\ index' = 1 /\ pc' = "run"
    /\ UNCHANGED <<envVars, limVars, sideVars, aborted, respVars, authVars, downVars>>

(* ---------------- cross-cutting middleware ------------------------------ *)

Recovery ==
    /\ Running("Recovery")
    /\ Continue
    /\ UNCHANGED <<envVars, limVars, sideVars, req, chain, aborted, respVars, authVars, downVars>>

RequestLogger ==
    /\ Running("RequestLogger")
    /\ Continue
    /\ UNCHANGED <<envVars, limVars, sideVars, req, chain, aborted, respVars, authVars, downVars>>

RequestID ==
    /\ Running("RequestID")
    /\ Continue
    /\ UNCHANGED <<envVars, limVars, sideVars, req, chain, aborted, respVars, authVars, downVars>>

\* cors.New(corsConfig): a request without Origin is passed on; one whose
\* origin AllowOrigins does not admit is answered 403; a preflight (OPTIONS)
\* from an admitted origin is answered 204; both answers abort the chain
CORS ==
    /\ Running("CORS")
    /\ IF req.origin = ""
       THEN Continue /\ UNCHANGED <<aborted, respVars>>
       ELSE \E admitted \in BOOLEAN :
              IF admitted /\ req.method # L_OPTIONS
              THEN Continue /\ UNCHANGED <<aborted, respVars>>
              ELSE /\ status' = JSONStatus(IF admitted THEN 204 ELSE 403)
                   /\ aborted' = TRUE
                   /\ UNCHANGED <<bodies, index, pc>>
    /\ UNCHANGED <<envVars, limVars, sideVars, req, chain, authVars, downVars>>

\* a limiter that lets the request pass without taking a token
RateLimit_noConsume ==
    /\ Running("RateLimit")
    /\ Continue
    /\ backToBack' = [requests |-> Min(backToBack.requests + 1, Burst + 1),
                      rejected |-> backToBack.rejected]
    /\ UNCHANGED <<envVars, tokens, sideVars, req, chain, aborted, respVars, authVars, downVars>>

RateLimit ==
    /\ Running("RateLimit")
    /\ IF tokens > 0
       THEN /\ tokens' = tokens - 1
            /\ Continue
            /\ UNCHANGED <<aborted, respVars>>
       ELSE /\ status' = JSONStatus(429)
            /\ bodies' = Append(bodies, "rate limit exceeded")
            /\ aborted' = TRUE
            /\ UNCHANGED <<tokens, index, pc>>
    /\ backToBack' = [requests |-> Min(backToBack.requests + 1, Burst + 1),
                      rejected |-> backToBack.rejected \/ tokens = 0]
    /\ UNCHANGED <<envVars, sideVars, req, chain, authVars, downVars>>

\* time passing: the limiter regains a token, up to the burst (between two
\* requests: a refill is only observed by the next limiter.Allow())
Refill ==
    /\ cfg.rateLimit
    /\ pc = "idle"
    /\ tokens < Burst
    /\ tokens' = tokens + 1
    /\ backToBack' = NoRun
    /\ UNCHANGED <<envVars, sideVars, ginVars, respVars, authVars, downVars>>

(* ---------------- unified authentication middleware --------------------- *)

\* handleInternalServiceAuth: "header" (method 1), "local-dev" (method 2), "" (not internal)
InternalServiceAuth(r, c) ==
    IF r.serviceName # "" /\ r.serviceSecret # "" /\ ~c.nil
       /\ isValidInternalService(r.serviceName, c)
    THEN "header"
    ELSE IF isLocalhost(ClientIP(r)) /\ isServiceUserAgent(r.userAgent)
    THEN "local-dev"
    ELSE ""

InternalCtx(r, how) ==
    IF how = "header"
    THEN [ctx EXCEPT !.user_id = <<"service-", r.serviceName>>,
                     !.organization_id = "internal",
                     !.is_internal = "true",
                     !.service_name = r.serviceName]
    ELSE [ctx EXCEPT !.user_id = <<"local-dev-service">>,
                     !.organization_id = "local",
                     !.is_internal = "true"]

\* variant: the public-endpoint check is missing
FirstSuccess_noBypass(r, c) ==
    LET how == InternalServiceAuth(r, c) IN
    IF how # "" THEN how ELSE "external"

\* the first step of UnifiedAuthentication that accepts the request:
\* "public", "header" / "local-dev" (internal service), or "external" when
\* neither does and handleExternalAuth is called
FirstSuccess(r, c) ==
    IF isPublicEndpoint(r.path) THEN "public"
    ELSE LET how == InternalServiceAuth(r, c) IN
         IF how # "" THEN how ELSE "external"

\* UnifiedAuthentication up to the call of handleExternalAuth
UnifiedAuthentication ==
    /\ Running("UnifiedAuthentication")
    /\ LET first == FirstSuccess(req, consul) IN
       IF first = "public"
       THEN /\ flow' = Append(flow, "public")
            /\ Continue
            /\ UNCHANGED ctx
       ELSE IF first = "external"
       THEN /\ flow' = flow \o <<"public", "internal">>
            /\ pc' = "jwt"
            /\ UNCHANGED <<ctx, index>>
       ELSE /\ flow' = flow \o <<"public", "internal">>
            /\ ctx' = InternalCtx(req, first)
            /\ Continue
    /\ UNCHANGED <<envVars, limVars, sideVars, req, chain, aborted, respVars, calls, outcomes, selector, downVars>>

\* handleJWTAuth up to the call of checkResourcePermissions
handleJWTAuth ==
    /\ pc = "jwt"
    /\ flow' = Append(flow, "jwt")
    /\ IF BearerToken(req.authorization) = <<>>
       THEN /\ pc' = "apikey"
            /\ UNCHANGED <<ctx, calls, outcomes>>
       ELSE \E o \in CallOutcomes :
            /\ calls' = [calls EXCEPT !.verifyToken = @ + 1]
            /\ outcomes' = [outcomes EXCEPT !.verifyToken = o]
            /\ IF TokenAccepted(o)
               THEN /\ ctx' = [ctx EXCEPT !.user_id = <<"u1">>, !.is_internal = "false",
                                          !.auth_method = "jwt"]
                    /\ pc' = "perm"
               ELSE /\ pc' = "apikey"
                    /\ UNCHANGED ctx
    /\ UNCHANGED <<envVars, limVars, sideVars, req, chain, index, aborted, respVars, selector, downVars>>

\* variant: the 403 branch of handleJWTAuth does not call c.Abort()
checkResourcePermissions_noAbort ==
    /\ pc = "perm"
    /\ selector' = getResourceInfoFromPath(req.path)
    /\ IF ~NeedsAccessCheck(req.path)
       THEN /\ Continue
            /\ UNCHANGED <<ctx, calls, outcomes, respVars>>
       ELSE \E o \in CallOutcomes :
            /\ calls' = [calls EXCEPT !.checkAccess = @ + 1]
            /\ outcomes' = [outcomes EXCEPT !.checkAccess = o]
            /\ IF AccessDecision(o)
               THEN /\ ctx' = IF o = "ok" THEN [ctx EXCEPT !.access_level = "granted"] ELSE ctx
                    /\ Continue
                    /\ UNCHANGED respVars
               ELSE /\ status' = JSONStatus(403)
                    /\ bodies' = Append(bodies, "insufficient permissions")
                    /\ pc' = "apikey"
                    /\ UNCHANGED <<ctx, index>>
    /\ UNCHANGED <<envVars, limVars, sideVars, req, chain, aborted, flow, downVars>>

\* checkResourcePermissions and the rest of handleJWTAuth
checkResourcePermissions ==
    /\ pc = "perm"
    /\ selector' = getResourceInfoFromPath(req.path)
    /\ IF ~NeedsAccessCheck(req.path)
       THEN /\ Continue
            /\ UNCHANGED <<ctx, calls, outcomes, aborted, respVars>>
       ELSE \E o \in CallOutcomes :
            /\ calls' = [calls EXCEPT !.checkAccess = @ + 1]
            /\ outcomes' = [outcomes EXCEPT !.checkAccess = o]
            /\ IF AccessDecision(o)
               THEN /\ ctx' = IF o = "ok" THEN [ctx EXCEPT !.access_level = "granted"] ELSE ctx
                    /\ Continue
                    /\ UNCHANGED <<aborted, respVars>>
               ELSE /\ status' = JSONStatus(403)
                    /\ bodies' = Append(bodies, "insufficient permissions")
                    /\ aborted' = TRUE
                    /\ pc' = "apikey"
                    /\ UNCHANGED <<ctx, index>>
    /\ UNCHANGED <<envVars, limVars, sideVars, req, chain, flow, downVars>>

handleAPIKeyAuth ==
    /\ pc = "apikey"
    /\ flow' = Append(flow, "apikey")
    /\ IF APIKeyOf(req) = ""
       THEN /\ pc' = "reject"
            /\ UNCHANGED <<ctx, calls, outcomes, index>>
       ELSE \E o \in CallOutcomes :
            /\ calls' = [calls EXCEPT !.verifyAPIKey = @ + 1]
            /\ outcomes' = [outcomes EXCEPT !.verifyAPIKey = o]
            /\ IF KeyAccepted(o)
               THEN /\ ctx' = [ctx EXCEPT !.user_id = <<"api-key-", "k1">>,
                                          !.organization_id = "org1",
                                          !.is_internal = "false",
                                          !.auth_method = "api_key"]
                    /\ Continue
               ELSE /\ pc' = "reject"
                    /\ UNCHANGED <<ctx, index>>
    /\ UNCHANGED <<envVars, limVars, sideVars, req, chain, aborted, respVars, selector, downVars>>

\* UnifiedAuthentication after handleExternalAuth returned false
AuthenticationFailed ==
    /\ pc = "reject"
    /\ status' = JSONStatus(401)
    /\ bodies' = Append(bodies, "authentication required")
    /\ aborted' = TRUE
    /\ pc' = "run"
    /\ UNCHANGED <<envVars, limVars, sideVars, req, chain, index, authVars, downVars>>

(* ---------------- route handlers and the proxy -------------------------- *)

RouteHandler ==
    /\ pc = "run" /\ ~aborted /\ index <= Len(chain)
    /\ chain[index] \in RouteHandlers
    /\ handlerRan' = chain[index]
    /\ \E s \in HandlerStatuses(chain[index]) : status' = JSONStatus(s)
    /\ bodies' = Append(bodies, chain[index])
    /\ Continue
    /\ UNCHANGED <<envVars, limVars, sideVars, req, chain, aborted, authVars, forwarded,
                   upstream, respHeaders, stream>>

\* a reverse proxy serves the request: one of NewDynamicProxy (with its
\* ErrorHandler) or the one Handler builds for a discovered instance (without)
ReverseProxyServe(by, u) ==
    /\ IF u.err
       THEN /\ status' = JSONStatus(502)
            /\ bodies' = IF by = "static" THEN Append(bodies, "Service unavailable: err")
                          ELSE bodies
            /\ UNCHANGED respHeaders
       ELSE /\ status' = JSONStatus(u.status)
            /\ bodies' = Append(bodies, "upstream")
            /\ respHeaders' = respHeaders \cup ReverseProxyHeaders(u)
    /\ Continue
    /\ UNCHANGED stream

\* copyResponse: c.Header sets each header, replacing a value set before
copyResponse(u) ==
    /\ status' = JSONStatus(u.status)
    /\ bodies' = Append(bodies, "upstream")
    /\ respHeaders' = { h \in respHeaders : \A k \in copyResponseHeaders(u) : k[1] # h[1] }
                        \cup copyResponseHeaders(u)
    /\ Continue
    /\ UNCHANGED stream

BadGateway ==
    /\ status' = JSONStatus(502)
    /\ bodies' = Append(bodies, "failed to reach target service")
    /\ Continue
    /\ UNCHANGED <<respHeaders, stream>>

\* proxySSE up to the first scanner.Scan() of the stream
proxySSE(u) ==
    IF u.err THEN BadGateway
    ELSE IF ~u.eventStream THEN copyResponse(u)
    ELSE /\ respHeaders' = { h \in respHeaders : \A k \in StreamHeaders : k[1] # h[1] }
                             \cup StreamHeaders
         /\ status' = JSONStatus(u.status)
         /\ \E b \in Bodies : stream' = [NoStream EXCEPT !.body = b, !.rest = b]
         /\ pc' = "stream"
         /\ UNCHANGED <<bodies, index>>

proxyHTTP(u) == IF u.err THEN BadGateway ELSE copyResponse(u)

\* DynamicProxy.Handler as the NoRoute handler
DynamicProxy ==
    /\ Running("DynamicProxy")
    /\ handlerRan' = "DynamicProxy"
    /\ IF ~HasPrefix(req.path, L_api_v1) \/ HasPrefix(req.path, L_pfx_gateway)
       THEN /\ Continue
            /\ UNCHANGED <<respVars, forwarded, upstream, respHeaders, stream>>
       ELSE LET d == RouteDecision(consul, req.path)
                by == ProxyFor(d, req.accept) IN
            IF d.via = "none"
            THEN /\ status' = JSONStatus(404)
                 /\ bodies' = Append(bodies, "Service not found")
                 /\ Continue
                 /\ UNCHANGED <<forwarded, upstream, respHeaders, stream>>
            ELSE /\ forwarded' = d
                 /\ \E u \in UpstreamReplies :
                      /\ upstream' =
                           [ called |-> TRUE, by |-> by,
                             target |-> IF d.via = "static"
                                        THEN <<"config", StaticTarget(d.service)>>
                                        ELSE <<"consul", d.service>>,
                             path |-> CASE by = "proxySSE" -> proxySSEPath(req.path)
                                        [] by = "proxyHTTP" -> proxyHTTPPath(req.path)
                                        [] OTHER -> ReverseProxyPath(req.path),
                             reply |-> u ]
                      /\ CASE by = "proxySSE" -> proxySSE(u)
                           [] by = "proxyHTTP" -> proxyHTTP(u)
                           [] OTHER -> ReverseProxyServe(by, u)
    /\ UNCHANGED <<envVars, limVars, sideVars, req, chain, aborted, authVars>>

\* the stream of proxySSE: scanner.Scan() returned a line, which is written
\* followed by a newline (flushed when the line is empty), or the write fails
\* and the step function returns; c.Stream flushes when the step returns
StreamLine ==
    /\ pc = "stream" /\ stream.rest # <<>>
    /\ LET s == ScanLines(stream.rest) IN
       \E written \in BOOLEAN :
         IF written
         THEN LET out == stream.out \o s.token \o <<"\n">> IN
              /\ stream' = [stream EXCEPT !.rest = s.rest, !.out = out,
                                          !.flushes = IF s.token = <<>> THEN Append(@, Len(out))
                                                      ELSE @]
              /\ UNCHANGED <<index, pc>>
         ELSE /\ stream' = [stream EXCEPT !.end = "write error",
                                          !.flushes = Append(@, Len(stream.out))]
              /\ Continue
    /\ UNCHANGED <<envVars, limVars, sideVars, req, chain, aborted, respVars, authVars,
                   handlerRan, forwarded, upstream, respHeaders>>

\* scanner.Scan() returned false at the end of the upstream body: the step
\* function returns false, c.Stream flushes and returns
StreamEnd ==
    /\ pc = "stream" /\ stream.rest = <<>>
    /\ stream' = [stream EXCEPT !.end = "eof", !.flushes = Append(@, Len(stream.out))]
    /\ Continue
    /\ UNCHANGED <<envVars, limVars, sideVars, req, chain, aborted, respVars, authVars,
                   handlerRan, forwarded, upstream, respHeaders>>

\* the chain is exhausted or aborted; gin answers 404 when nothing was written
Complete ==
    /\ pc = "run"
    /\ aborted \/ index > Len(chain)
    /\ pc' = "done"
    /\ status' = JSONStatus(404)
    /\ UNCHANGED <<envVars, limVars, sideVars, req, chain, index, aborted, bodies, authVars, downVars>>

\* the response is out; the next request starts from a fresh context
Finish ==
    /\ pc = "done"
    /\ req' = NoRequest /\ chain' = <<>> /\ index' = 0 /\ aborted' = FALSE /\ pc' = "idle"
    /\ status' = 0 /\ bodies' = <<>>
    /\ ctx' = NoCtx /\ calls' = NoCalls /\ outcomes' = NoOutcomes /\ flow' = <<>>
    /\ selector' = NoSelector
    /\ handlerRan' = "" /\ forwarded' = NotForwarded
    /\ upstream' = NoUpstream /\ respHeaders' = {} /\ stream' = NoStream
    /\ UNCHANGED <<envVars, limVars, sideVars>>

(* ---------------- MQTT adapter: operations ------------------------------ *)

\* onConnect: the flag goes up and each configured topic that has a handler is
\* subscribed through Subscribe, which stores the handler it was given again
onConnect ==
    /\ isConnected' = TRUE
    /\ handlers' = [p \in DOMAIN handlers |-> handlers[p]]
    /\ subs' = subs \cup Resubscribed(handlers)

\* Connect builds a client and connects it; the library then calls onConnect.
\* The client id carries the time, so the broker starts a session without
\* subscriptions
Connect ==
    /\ link = "none"
    /\ link' = "up"
    /\ onConnect
    /\ UNCHANGED <<mqttCfg, delivered, mu, thr, gatewayVars, facadeVars, otherVars>>

\* the connection drops; a clean session loses its subscriptions at the broker
onConnectionLost ==
    /\ link = "up"
    /\ link' = "lost"
    /\ isConnected' = FALSE
    /\ subs' = IF mqttCfg.cleanSession THEN {} ELSE subs
    /\ UNCHANGED <<mqttCfg, handlers, delivered, mu, thr, gatewayVars, facadeVars, otherVars>>

\* AutoReconnect: the client is connected again and the library calls onConnect
Reconnect ==
    /\ link = "lost"
    /\ link' = "up"
    /\ onConnect
    /\ UNCHANGED <<mqttCfg, delivered, mu, thr, gatewayVars, facadeVars, otherVars>>

Disconnect ==
    /\ link \in {"up", "lost"}
    /\ link' = "none"
    /\ isConnected' = FALSE
    /\ subs' = {}
    /\ UNCHANGED <<mqttCfg, handlers, delivered, mu, thr, gatewayVars, facadeVars, otherVars>>

\* Subscribe(topic, handler) from the application: the handler is stored, then
\* the client subscribes; while the connection is lost the client returns an
\* error and the handler stays stored
Subscribe ==
    /\ link \in {"up", "lost"}
    /\ \E topic \in CustomTopics :
         /\ handlers' = (topic :> "custom") @@ handlers
         /\ subs' = IF link = "up" THEN subs \cup {topic} ELSE subs
    /\ UNCHANGED <<mqttCfg, isConnected, link, delivered, mu, thr, gatewayVars, facadeVars, otherVars>>

\* the library hands a message of a subscribed route to handleMessage, which
\* runs the handler of a matching pattern
handleMessage ==
    /\ link = "up"
    /\ \E topic \in MessageTopics :
         /\ Routed(subs, topic)
         /\ \E invoked \in Dispatch(handlers, topic) :
              \E payload \in Payloads, code \in ServiceCodes :
                 delivered' =
                   [topic |-> topic, payload |-> payload, patterns |-> DOMAIN handlers,
                    invoked |-> invoked,
                    ran |-> [n \in DOMAIN invoked |-> handlers[invoked[n]]],
                    effect |-> IF invoked = <<>> THEN NoEffect
                               ELSE HandlerEffect(handlers[invoked[1]], topic, payload,
                                                  mqttCfg.deviceEnabled, code)]
    /\ UNCHANGED <<mqttCfg, handlers, isConnected, link, subs, mu, thr, gatewayVars, facadeVars, otherVars>>

(* ---------------- MQTT adapter: goroutines, statement by statement ------- *)

\* thr[g].at names the statement goroutine g executes next
Now(g, where) == thr[g].at = where
Move(g, where) == thr' = [thr EXCEPT ![g].at = where]

\* the application calls Subscribe for a topic of its own
SubscribeCall ==
    /\ Now("app", "idle") /\ link # "none"
    /\ \E topic \in CustomTopics :
         thr' = [thr EXCEPT !["app"] = [at |-> "Lock", i |-> 0, topic |-> topic]]
    /\ UNCHANGED <<mqttCfg, handlers, isConnected, link, subs, delivered, mu, gatewayVars, facadeVars, otherVars>>

\* Subscribe: a.mu.Lock() is called, and returns once no one holds the lock
SubscribeLock(g) ==
    /\ \/ /\ Now(g, "Lock")
          /\ mu' = [mu EXCEPT !.waiting = @ \cup {g}]
          /\ Move(g, "Locking")
       \/ /\ Now(g, "Locking") /\ mu.writer = "" /\ mu.readers = {}
          /\ mu' = [mu EXCEPT !.writer = g, !.waiting = @ \ {g}]
          /\ Move(g, "store")
    /\ UNCHANGED <<mqttCfg, handlers, isConnected, link, subs, delivered, gatewayVars, facadeVars, otherVars>>

\* Subscribe: a.handlers[topic] = handler
SubscribeStore(g) ==
    /\ Now(g, "store")
    /\ handlers' = (thr[g].topic :> (IF g = "app" THEN "custom" ELSE handlers[thr[g].topic]))
                     @@ handlers
    /\ Move(g, "Unlock")
    /\ UNCHANGED <<mqttCfg, isConnected, link, subs, delivered, mu, gatewayVars, facadeVars, otherVars>>

\* Subscribe: a.mu.Unlock() lets in every reader that was blocked in RLock
\* before the next writer gets the lock
SubscribeUnlock(g) ==
    /\ Now(g, "Unlock")
    /\ mu' = [mu EXCEPT !.writer = "", !.readers = mu.parked, !.parked = {}]
    /\ thr' = [h \in DOMAIN thr |->
                 IF h = g THEN [thr[h] EXCEPT !.at = "client.Subscribe"]
                 ELSE IF h \in mu.parked THEN [thr[h] EXCEPT !.at = "range"]
                 ELSE thr[h]]
    /\ UNCHANGED <<mqttCfg, handlers, isConnected, link, subs, delivered, gatewayVars, facadeVars, otherVars>>

\* Subscribe: a.client.Subscribe(topic, ...) and the return; inside onConnect
\* the loop goes on with the next configured topic
SubscribeAtBroker(g) ==
    /\ Now(g, "client.Subscribe")
    /\ subs' = IF link = "up" THEN subs \cup {thr[g].topic} ELSE subs
    /\ thr' = [thr EXCEPT ![g] =
                 IF g = "app" \/ thr[g].i = Len(ConfiguredTopics) THEN Parked
                 ELSE [at |-> "lookup", i |-> thr[g].i + 1, topic |-> <<>>]]
    /\ UNCHANGED <<mqttCfg, handlers, isConnected, link, delivered, mu, gatewayVars, facadeVars, otherVars>>

\* the client is connected, for the first time or again, and the library
\* calls onConnect on its connection goroutine
onConnectCall ==
    /\ Now("conn", "idle") /\ link # "up"
    /\ link' = "up"
    /\ Move("conn", "isConnected")
    /\ UNCHANGED <<mqttCfg, handlers, isConnected, subs, delivered, mu, gatewayVars, facadeVars, otherVars>>

\* onConnect: a.isConnected = true
onConnectFlag ==
    /\ Now("conn", "isConnected")
    /\ isConnected' = TRUE
    /\ thr' = [thr EXCEPT !["conn"] = [at |-> "lookup", i |-> 1, topic |-> <<>>]]
    /\ UNCHANGED <<mqttCfg, handlers, link, subs, delivered, mu, gatewayVars, facadeVars, otherVars>>

\* onConnect: handler, exists := a.handlers[topic], then Subscribe(topic, handler)
onConnectLookup ==
    /\ Now("conn", "lookup")
    /\ thr' = [thr EXCEPT !["conn"] =
                 IF ConfiguredTopics[thr["conn"].i] \in DOMAIN handlers
                 THEN [at |-> "Lock", i |-> thr["conn"].i, topic |-> ConfiguredTopics[thr["conn"].i]]
                 ELSE IF thr["conn"].i = Len(ConfiguredTopics) THEN Parked
                 ELSE [at |-> "lookup", i |-> thr["conn"].i + 1, topic |-> <<>>]]
    /\ UNCHANGED <<mqttCfg, handlers, isConnected, link, subs, delivered, mu, gatewayVars, facadeVars, otherVars>>

\* the connection drops while onConnect is not running
ConnectionDrops ==
    /\ Now("conn", "idle")
    /\ onConnectionLost

\* the library calls the subscription callback with a message
handleMessageCall ==
    /\ Now("paho", "idle") /\ link = "up"
    /\ \E topic \in {T_d1_telemetry, T_a_b} :
         /\ Routed(subs, topic)
         /\ thr' = [thr EXCEPT !["paho"] = [at |-> "RLock", i |-> 0, topic |-> topic]]
    /\ UNCHANGED <<mqttCfg, handlers, isConnected, link, subs, delivered, mu, gatewayVars, facadeVars, otherVars>>

\* handleMessage: a.mu.RLock() returns at once unless a writer holds the lock
\* or waits for it; then the callback blocks until that writer's Unlock
handleMessageRLock ==
    /\ Now("paho", "RLock")
    /\ IF mu.writer = "" /\ mu.waiting = {}
       THEN /\ mu' = [mu EXCEPT !.readers = @ \cup {"paho"}]
            /\ Move("paho", "range")
       ELSE /\ mu' = [mu EXCEPT !.parked = @ \cup {"paho"}]
            /\ Move("paho", "RLocking")
    /\ UNCHANGED <<mqttCfg, handlers, isConnected, link, subs, delivered, gatewayVars, facadeVars, otherVars>>

\* handleMessage: the loop over a.handlers and the handler it runs
handleMessageRange ==
    /\ Now("paho", "range")
    /\ \E invoked \in Dispatch(handlers, thr["paho"].topic) :
         \E payload \in Payloads, code \in ServiceCodes :
            delivered' =
              [topic |-> thr["paho"].topic, payload |-> payload, patterns |-> DOMAIN handlers,
               invoked |-> invoked,
               ran |-> [n \in DOMAIN invoked |-> handlers[invoked[n]]],
               effect |-> IF invoked = <<>> THEN NoEffect
                          ELSE HandlerEffect(handlers[invoked[1]], thr["paho"].topic, payload,
                                             mqttCfg.deviceEnabled, code)]
    /\ Move("paho", "RUnlock")
    /\ UNCHANGED <<mqttCfg, handlers, isConnected, link, subs, mu, gatewayVars, facadeVars, otherVars>>

\* handleMessage: the deferred a.mu.RUnlock()
handleMessageRUnlock ==
    /\ Now("paho", "RUnlock")
    /\ mu' = [mu EXCEPT !.readers = @ \ {"paho"}]
    /\ thr' = [thr EXCEPT !["paho"] = Parked]
    /\ UNCHANGED <<mqttCfg, handlers, isConnected, link, subs, delivered, gatewayVars, facadeVars, otherVars>>

\* an HTTP handler calls GetStats, which evaluates len(a.handlers)
GetStats ==
    /\ \/ Now("http", "idle") /\ Move("http", "len")
       \/ Now("http", "len") /\ Move("http", "idle")
    /\ UNCHANGED <<mqttCfg, handlers, isConnected, link, subs, delivered, mu, gatewayVars, facadeVars, otherVars>>

\* the map is written in Subscribe while onConnect reads it without the lock:
\* the read may see the map as it was or as it is, or the runtime detects the
\* concurrent access and ends the process (fatal error: concurrent map read
\* and map write)
Fatal == [at |-> "fatal", i |-> 0, topic |-> <<>>]
RuntimeAborts ==
    /\ Now("app", "store") /\ Now("conn", "lookup")
    /\ thr' = [g \in DOMAIN thr |-> Fatal]
    /\ UNCHANGED <<mqttCfg, handlers, isConnected, link, subs, delivered, mu, gatewayVars, facadeVars, otherVars>>

(* ---------------- blockchain facade: operations ------------------------- *)

\* one of the six high-level operations, start to end; the facade's lock is
\* held only inside GetDefaultChain
HighLevelOperation ==
    /\ gmu.writer = ""
    /\ \E op \in Operations :
         outcome' = FacadeOperation(op, chainCfg, defaultChain, connected)
    /\ UNCHANGED <<chainCfg, chains, defaultChain, connected, gmu, callers, seen,
                   gatewayVars, mqttVars, otherVars>>

At(g, where) == callers[g] = where
Goto(g, where) == callers' = [callers EXCEPT ![g] = where]
Holds(g) == gmu.writer = g \/ g \in gmu.readers

\* Gateway.Close: g.mu.Lock()
CloseLock ==
    /\ At("close", "idle")
    /\ gmu = NoLock
    /\ gmu' = [gmu EXCEPT !.writer = "close"]
    /\ Goto("close", "Disconnect")
    /\ UNCHANGED <<chainCfg, chains, defaultChain, connected, outcome, seen, gatewayVars, mqttVars, otherVars>>

\* adapter.Disconnect() for each registered chain: a.connected = false
CloseDisconnect ==
    /\ At("close", "Disconnect")
    /\ connected' = IF chains = {} THEN connected ELSE FALSE
    /\ Goto("close", "Unlock")
    /\ UNCHANGED <<chainCfg, chains, defaultChain, gmu, outcome, seen, gatewayVars, mqttVars, otherVars>>

CloseUnlock ==
    /\ At("close", "Unlock")
    /\ gmu' = [gmu EXCEPT !.writer = ""]
    /\ Goto("close", "idle")
    /\ UNCHANGED <<chainCfg, chains, defaultChain, connected, outcome, seen, gatewayVars, mqttVars, otherVars>>

\* blockchainStatus: GetChain(ChainTypeISA) takes and releases the read lock
StatusGetChain ==
    /\ At("status", "idle")
    /\ gmu.writer = ""
    /\ seen' = [seen EXCEPT !["status"] = <<>>]
    /\ IF ChainTypeISA \in chains
       THEN Goto("status", "GetBlockNumber")
       ELSE UNCHANGED callers
    /\ UNCHANGED <<chainCfg, chains, defaultChain, connected, gmu, outcome, gatewayVars, mqttVars, otherVars>>

\* chain.GetBlockNumber(ctx) reads a.connected
StatusGetBlockNumber ==
    /\ At("status", "GetBlockNumber")
    /\ seen' = [seen EXCEPT !["status"] = Append(@, connected)]
    /\ Goto("status", "IsConnected")
    /\ UNCHANGED <<chainCfg, chains, defaultChain, connected, gmu, outcome, gatewayVars, mqttVars, otherVars>>

\* "connected": chain.IsConnected() reads a.connected for the response
StatusIsConnected ==
    /\ At("status", "IsConnected")
    /\ seen' = [seen EXCEPT !["status"] = Append(@, connected)]
    /\ Goto("status", "idle")
    /\ UNCHANGED <<chainCfg, chains, defaultChain, connected, gmu, outcome, gatewayVars, mqttVars, otherVars>>

\* Gateway.HealthCheck: g.mu.RLock()
HealthRLock ==
    /\ At("health", "idle")
    /\ gmu.writer = ""
    /\ gmu' = [gmu EXCEPT !.readers = @ \cup {"health"}]
    /\ seen' = [seen EXCEPT !["health"] = <<>>]
    /\ Goto("health", "IsConnected")
    /\ UNCHANGED <<chainCfg, chains, defaultChain, connected, outcome, gatewayVars, mqttVars, otherVars>>

\* adapter.IsConnected() for each registered chain
HealthIsConnected ==
    /\ At("health", "IsConnected")
    /\ seen' = [seen EXCEPT !["health"] = IF chains = {} THEN <<>> ELSE <<connected>>]
    /\ Goto("health", "RUnlock")
    /\ UNCHANGED <<chainCfg, chains, defaultChain, connected, gmu, outcome, gatewayVars, mqttVars, otherVars>>

HealthRUnlock ==
    /\ At("health", "RUnlock")
    /\ gmu' = [gmu EXCEPT !.readers = @ \ {"health"}]
    /\ Goto("health", "idle")
    /\ UNCHANGED <<chainCfg, chains, defaultChain, connected, outcome, seen, gatewayVars, mqttVars, otherVars>>

(* ---------------- blockchain facade: the chain registry ------------------ *)

Return(call, arg, err, value) ==
    [call |-> call, arg |-> arg, err |-> err, value |-> value, code |-> 0]

\* each of the registry's methods runs under g.mu from its first statement to
\* its return

RegisterChain ==
    /\ gmu = NoLock
    /\ \E chainType \in ChainTypes, adapter \in Adapters :
         IF chainType \in chains
         THEN /\ ret' = Return("RegisterChain", chainType, "already registered", adapter)
              /\ UNCHANGED <<chains, adapterAt>>
         ELSE /\ chains' = chains \cup {chainType}
              /\ adapterAt' = [adapterAt EXCEPT ![chainType] = adapter]
              /\ ret' = Return("RegisterChain", chainType, "", adapter)
    /\ UNCHANGED <<chainCfg, defaultChain, connected, gmu, callers, outcome, seen, rpcClient,
                   gatewayVars, mqttVars, restVars>>

GetChain ==
    /\ gmu.writer = ""
    /\ \E chainType \in ChainTypes :
         ret' = IF chainType \in chains
                THEN Return("GetChain", chainType, "", adapterAt[chainType])
                ELSE Return("GetChain", chainType, "not found", NoAdapter)
    /\ UNCHANGED <<chainCfg, chains, adapterAt, defaultChain, connected, gmu, callers, outcome,
                   seen, rpcClient, gatewayVars, mqttVars, restVars>>

\* variant: the default is set without looking the chain type up
SetDefaultChain_unchecked ==
    /\ gmu = NoLock
    /\ \E chainType \in ChainTypes :
         /\ defaultChain' = chainType
         /\ ret' = Return("SetDefaultChain", chainType, "", "")
    /\ UNCHANGED <<chainCfg, chains, adapterAt, connected, gmu, callers, outcome, seen,
                   rpcClient, gatewayVars, mqttVars, restVars>>

SetDefaultChain ==
    /\ gmu = NoLock
    /\ \E chainType \in ChainTypes :
         IF chainType \notin chains
         THEN /\ ret' = Return("SetDefaultChain", chainType, "not registered", "")
              /\ UNCHANGED defaultChain
         ELSE /\ defaultChain' = chainType
              /\ ret' = Return("SetDefaultChain", chainType, "", "")
    /\ UNCHANGED <<chainCfg, chains, adapterAt, connected, gmu, callers, outcome, seen,
                   rpcClient, gatewayVars, mqttVars, restVars>>

\* g.chains[g.defaultChain]: the zero value when the map has no such key
GetDefaultChain ==
    /\ gmu.writer = ""
    /\ ret' = IF defaultChain = ""
              THEN Return("GetDefaultChain", "", "no default chain set", NoAdapter)
              ELSE Return("GetDefaultChain", defaultChain, "",
                          IF defaultChain \in chains THEN adapterAt[defaultChain]
                          ELSE NoAdapter)
    /\ UNCHANGED <<chainCfg, chains, adapterAt, defaultChain, connected, gmu, callers, outcome,
                   seen, rpcClient, gatewayVars, mqttVars, restVars>>

\* Close: Disconnect on every registered adapter; the registry keeps its
\* entries and its default
Close ==
    /\ gmu = NoLock
    /\ connected' = IF \E t \in chains : adapterAt[t] = "isa" THEN FALSE ELSE connected
    /\ ret' = Return("Close", "", "", "")
    /\ UNCHANGED <<chainCfg, chains, adapterAt, defaultChain, gmu, callers, outcome, seen,
                   rpcClient, gatewayVars, mqttVars, restVars>>

(* ---------------- the ISA chain adapter ---------------------------------- *)

NotConnected == "not connected to isA_Chain"

\* the methods that talk to the chain
ChainOperations ==
    { "GetBlockNumber", "GetBalance", "GetTokenBalance", "GetNonce", "SendTransaction",
      "GetTransaction", "WaitForConfirmation", "EstimateGas", "CallContract",
      "ExecuteContract", "DeployContract", "GetTokenInfo", "TransferToken", "ApproveToken",
      "MintNFT", "TransferNFT", "GetNFTMetadata", "GetNFTOwner", "GetPoolInfo", "SwapTokens",
      "AddLiquidity", "RemoveLiquidity" }

\* variant: the method goes to the chain without looking at the flag
ChainOperation_unchecked(method, conn) ==
    IF method = "DeployContract"
    THEN [err |-> "contract deployment not yet implemented", value |-> ""]
    ELSE IF method = "GetNFTOwner" THEN [err |-> "failed to get NFT owner", value |-> ""]
    ELSE [err |-> "", value |-> method]

\* each of them begins with "if !a.connected"; connected, two of them still
\* fail: deployment is not implemented and ownerOf finds no result
ChainOperation(method, conn) ==
    IF ~conn THEN [err |-> NotConnected, value |-> ""]
    ELSE IF method = "DeployContract"
    THEN [err |-> "contract deployment not yet implemented", value |-> ""]
    ELSE IF method = "GetNFTOwner" THEN [err |-> "failed to get NFT owner", value |-> ""]
    ELSE [err |-> "", value |-> method]

\* config.ChainID, by its decimal digits
ChainIDs == {"1", "1337"}

\* GetChainID answers from the configuration
GetChainID(configured) == [err |-> "", value |-> configured]

AdapterConnect ==
    /\ \E configured \in ChainIDs :
         IF connected
         THEN /\ ret' = Return("Connect", "", "", "")
              /\ UNCHANGED <<connected, rpcClient>>
         ELSE LET chainID == GetChainID(configured) IN
              /\ rpcClient' = TRUE
              /\ IF chainID.err # ""
                 THEN /\ ret' = Return("Connect", "", "failed to connect to isA_Chain", "")
                      /\ UNCHANGED connected
                 ELSE IF chainID.value # configured
                 THEN /\ ret' = Return("Connect", "", "chain ID mismatch", "")
                      /\ UNCHANGED connected
                 ELSE /\ connected' = TRUE
                      /\ ret' = Return("Connect", "", "", "")
    /\ UNCHANGED <<chainCfg, chains, adapterAt, defaultChain, gmu, callers, outcome, seen,
                   gatewayVars, mqttVars, restVars>>

AdapterDisconnect ==
    /\ connected' = IF ~connected THEN connected ELSE FALSE
    /\ ret' = Return("Disconnect", "", "", "")
    /\ UNCHANGED <<chainCfg, chains, adapterAt, defaultChain, gmu, callers, outcome, seen,
                   rpcClient, gatewayVars, mqttVars, restVars>>

AdapterIsConnected ==
    /\ ret' = Return("IsConnected", "", "", IF connected THEN "true" ELSE "false")
    /\ UNCHANGED <<chainCfg, chains, adapterAt, defaultChain, connected, gmu, callers, outcome,
                   seen, rpcClient, gatewayVars, mqttVars, restVars>>

AdapterGetChainID ==
    /\ \E configured \in ChainIDs :
         LET chainID == GetChainID(configured) IN
         ret' = Return("GetChainID", "", chainID.err, chainID.value)
    /\ UNCHANGED <<chainCfg, chains, adapterAt, defaultChain, connected, gmu, callers, outcome,
                   seen, rpcClient, gatewayVars, mqttVars, restVars>>

AdapterOperation ==
    /\ \E method \in ChainOperations :
         LET r == ChainOperation(method, connected) IN
         ret' = Return(method, "", r.err, r.value)
    /\ UNCHANGED <<chainCfg, chains, adapterAt, defaultChain, connected, gmu, callers, outcome,
                   seen, rpcClient, gatewayVars, mqttVars, restVars>>

(* ---------------- the blockchain endpoints ------------------------------- *)

\* what the handlers make of their inputs
Answer(call, arg, code) == [call |-> call, arg |-> arg, err |-> "", value |-> "", code |-> code]

\* strconv.ParseUint(s, 10, 64) on texts short enough not to overflow
ParseUint(s) ==
    IF s # <<>> /\ \A i \in 1..Len(s) : \E n \in 1..10 : Digits[n] = s[i]
    THEN [err |-> FALSE, digits |-> s]
    ELSE [err |-> TRUE, digits |-> <<>>]

B_latest == <<"l", "a", "t", "e", "s", "t">>
B_12 == <<"1", "2">>
B_0x12 == <<"0", "x", "1", "2">>
BlockNumbers == {B_latest, B_12, B_0x12}
\* the JSON bodies of POST /transaction: well-formed, without "to", with a
\* value or a gas price that is not a decimal number
TransactionBodies == {"valid", "no to", "bad value", "bad gasPrice"}

\* present: g.blockchainGateway != nil; registered: GetChain(ChainTypeISA) finds
\* an adapter; conn: a.connected as the adapter's methods read it
blockchainStatus(present, registered, conn) ==
    IF ~present THEN 503
    ELSE IF ~registered THEN 500
    ELSE 200

getBalance(present, registered, conn, address) ==
    IF ~present THEN 503
    ELSE IF address = "" THEN 400
    ELSE IF ~registered THEN 500
    ELSE IF ChainOperation("GetBalance", conn).err # "" THEN 500
    ELSE 200

sendTransaction(present, registered, conn, body) ==
    IF ~present THEN 503
    ELSE IF body # "valid" THEN 400
    ELSE IF ~registered THEN 500
    ELSE IF ChainOperation("SendTransaction", conn).err # "" THEN 500
    ELSE 200

getTransaction(present, registered, conn, txHash) ==
    IF ~present THEN 503
    ELSE IF txHash = "" THEN 400
    ELSE IF ~registered THEN 500
    ELSE IF ChainOperation("GetTransaction", conn).err # "" THEN 500
    ELSE 200

getBlock(present, registered, conn, number) ==
    IF ~present THEN 503
    ELSE IF number = <<>> THEN 400
    ELSE IF number # B_latest /\ ParseUint(number).err THEN 400
    ELSE IF ~registered THEN 500
    ELSE IF ChainOperation("GetBlockNumber", conn).err # "" THEN 500
    ELSE 200

Endpoints == {"status", "balance", "transaction", "transaction/:hash", "block"}

\* a request that reached the handler of one of the five routes
BlockchainEndpoint ==
    /\ gmu.writer = ""
    /\ LET present == cfg.blockchain
           registered == ChainTypeISA \in chains
       IN \/ ret' = Answer("status", "", blockchainStatus(present, registered, connected))
          \/ \E address \in {"0xA1"} :
               ret' = Answer("balance", address,
                             getBalance(present, registered, connected, address))
          \/ \E body \in TransactionBodies :
               ret' = Answer("transaction", body,
                             sendTransaction(present, registered, connected, body))
          \/ \E txHash \in {"0xT1"} :
               ret' = Answer("transaction/:hash", txHash,
                             getTransaction(present, registered, connected, txHash))
          \/ \E number \in BlockNumbers :
               ret' = Answer("block", IF number = B_latest THEN "latest" ELSE
                                      IF number = B_12 THEN "12" ELSE "0x12",
                             getBlock(present, registered, connected, number))
    /\ UNCHANGED <<chainCfg, chains, adapterAt, defaultChain, connected, gmu, callers, outcome,
                   seen, rpcClient, gatewayVars, mqttVars, restVars>>

(* ---------------- liveness and readiness probes -------------------------- *)

\* the clients New creates: one for every backend, never nil
ServiceClients == Subsystems

\* CheckConnectivity: "always return success in mock mode"
CheckConnectivity(reach) == ""

readinessCheck(reach) ==
    LET ready == CheckConnectivity(reach) = ""
        services == [s \in Subsystems |-> s \in ServiceClients]
    IN [path |-> "/ready", code |-> IF ready THEN 200 ELSE 503, ready |-> ready,
        services |-> services]

healthCheck == [path |-> "/health", code |-> 200, ready |-> TRUE, services |-> {}]

\* a backend comes up, slows down or goes away; answers given before say
\* nothing about the new situation
BackendChanges ==
    /\ \E s \in Subsystems, how \in {"up", "slow", "down"} :
         /\ reachable[s] # how
         /\ reachable' = [reachable EXCEPT ![s] = how]
    /\ probe' = NoProbe
    /\ UNCHANGED <<gatewayVars, mqttVars, facadeVars, chainVars, registryVars, busVars, supVars>>

GetReady ==
    /\ probe' = readinessCheck(reachable)
    /\ UNCHANGED <<reachable, gatewayVars, mqttVars, facadeVars, chainVars, registryVars,
                   busVars, supVars>>

GetHealth ==
    /\ probe' = healthCheck
    /\ UNCHANGED <<reachable, gatewayVars, mqttVars, facadeVars, chainVars, registryVars,
                   busVars, supVars>>

(* ---------------- the registry client ------------------------------------ *)

\* fmt.Sprintf("%s-%s-%d", name, host, port)
ServiceID(name, host, port) == name \o "-" \o host \o "-" \o ToString(port)

\* Agent().ServiceRegister: the registration replaces one of the same ID; its
\* HTTP check has not passed yet
RegisterService(a, name, host, port, tags) ==
    LET serviceID == ServiceID(name, host, port) IN
    { r \in a : r.ID # serviceID }
    \cup { [ID |-> serviceID, Name |-> name, Address |-> host, Port |-> port, Tags |-> tags,
            passing |-> FALSE] }

\* Agent().ServiceDeregister(serviceID): the agent knows services by their ID
DeregisterService(a, serviceID) ==
    IF \E r \in a : r.ID = serviceID
    THEN [err |-> "", agent |-> { r \in a : r.ID # serviceID }]
    ELSE [err |-> "failed to deregister service", agent |-> a]

Orders(S) ==
    { seq \in [1..Cardinality(S) -> S] : \A i, j \in 1..Cardinality(S) : seq[i] = seq[j] => i = j }

\* Health().Service(name, "", true): the passing instances, in some order
HealthService(a, name) == Orders({ r \in a : r.Name = name /\ r.passing })

Instance(r) ==
    [ID |-> r.ID, Name |-> r.Name, Host |-> r.Address, Port |-> r.Port, Tags |-> r.Tags]

\* DiscoverService, for one answer of the agent
DiscoverService(services) ==
    IF Len(services) = 0
    THEN [err |-> "no healthy instances found for service", instances |-> <<>>]
    ELSE [err |-> "", instances |-> [i \in 1..Len(services) |-> Instance(services[i])]]

\* GetHealthyInstance: instances[0] of its own DiscoverService call
FirstInstance(services) ==
    LET d == DiscoverService(services) IN
    IF d.err # "" THEN d ELSE [err |-> "", instances |-> <<d.instances[1]>>]

\* the names ConsulIntegration registers, and those DeregisterAll goes through
Features == {"blockchain-tokens", "blockchain-nft", "blockchain-defi", "blockchain-bridge"}
ChainService(chainType) == "blockchain-" \o chainType

\* isFeatureAvailable: a connected chain with smart contracts (the ISA adapter
\* supports them), or two connected chains for the bridge
isFeatureAvailable(feature, registered, conn) ==
    IF feature \in {"blockchain-tokens", "blockchain-nft", "blockchain-defi"}
    THEN \E t \in registered : adapterAt[t] = "isa" /\ conn
    ELSE IF feature = "blockchain-bridge"
    THEN Cardinality({ t \in registered : adapterAt[t] = "isa" /\ conn }) >= 2
    ELSE FALSE

RECURSIVE RegisterEach(_, _, _, _)
RegisterEach(a, names, host, port) ==
    IF names = {} THEN a
    ELSE LET n == CHOOSE x \in names : TRUE IN
         RegisterEach(RegisterService(a, n, host, port, {"blockchain"}), names \ {n}, host, port)

RegisterBlockchainServices(a, registered, conn, host, port) ==
    RegisterEach(a,
                 {"blockchain-gateway"}
                 \cup { ChainService(t) : t \in { x \in registered : adapterAt[x] = "isa" /\ conn } }
                 \cup { f \in Features : isFeatureAvailable(f, registered, conn) },
                 host, port)

RECURSIVE DeregisterEach(_, _)
DeregisterEach(a, ids) ==
    IF ids = {} THEN [err |-> "", agent |-> a]
    ELSE LET id == CHOOSE x \in ids : TRUE
             one == DeregisterService(a, id)
             rest == DeregisterEach(one.agent, ids \ {id})
         IN [err |-> IF one.err # "" THEN one.err ELSE rest.err, agent |-> rest.agent]

\* DeregisterAll hands the service names to DeregisterService
DeregisterAll(a, registered) ==
    DeregisterEach(a, {"blockchain-gateway"} \cup Features
                      \cup { ChainService(t) : t \in registered })

Hosts == {"localhost", "10.0.0.2"}
Port == 8545
Called(call, arg, err, instances) ==
    [call |-> call, arg |-> arg, err |-> err, instances |-> instances]
ExceptRegistry == <<gatewayVars, mqttVars, facadeVars, chainVars, readyVars, busVars, supVars>>

CallRegisterService ==
    /\ \E host \in Hosts :
         /\ agent' = RegisterService(agent, "users", host, Port, {"api"})
         /\ found' = Called("RegisterService", ServiceID("users", host, Port), "", <<>>)
    /\ UNCHANGED ExceptRegistry

CallDeregisterService ==
    /\ \E host \in Hosts :
         LET serviceID == ServiceID("users", host, Port)
             d == DeregisterService(agent, serviceID)
         IN /\ agent' = d.agent
            /\ found' = Called("DeregisterService", serviceID, d.err, <<>>)
    /\ UNCHANGED ExceptRegistry

CallDiscoverService ==
    /\ \E name \in {"users", "blockchain-gateway"} :
       \E services \in HealthService(agent, name) :
         LET d == DiscoverService(services) IN
         found' = Called("DiscoverService", name, d.err, d.instances)
    /\ UNCHANGED <<agent, ExceptRegistry>>

CallGetHealthyInstance ==
    /\ \E name \in {"users", "blockchain-gateway"} :
       \E services \in HealthService(agent, name) :
         LET d == FirstInstance(services) IN
         found' = Called("GetHealthyInstance", name, d.err, d.instances)
    /\ UNCHANGED <<agent, ExceptRegistry>>

CallRegisterBlockchainServices ==
    /\ agent' = RegisterBlockchainServices(agent, chains, connected, "localhost", Port)
    /\ found' = Called("RegisterBlockchainServices", "", "", <<>>)
    /\ UNCHANGED ExceptRegistry

CallDeregisterAll ==
    /\ LET d == DeregisterAll(agent, chains) IN
       /\ agent' = d.agent
       /\ found' = Called("DeregisterAll", "", d.err, <<>>)
    /\ UNCHANGED ExceptRegistry

\* the agent runs the registration's HTTP check every ten seconds
CheckRuns ==
    /\ \E r \in agent, passes \in BOOLEAN :
         /\ r.passing # passes
         /\ agent' = (agent \ {r}) \cup {[r EXCEPT !.passing = passes]}
    /\ found' = NoFound
    /\ UNCHANGED ExceptRegistry

\* DeregisterCriticalServiceAfter: the agent drops a registration whose check
\* has been critical for a minute
ReapCritical ==
    /\ \E r \in agent : ~r.passing /\ agent' = agent \ {r}
    /\ found' = NoFound
    /\ UNCHANGED ExceptRegistry

(* ---------------- the gateway process: runGateway ------------------------ *)

ExceptSup == <<gatewayVars, mqttVars, facadeVars, chainVars, readyVars, registryVars, busVars>>
Watcher(s) == IF s = "http" THEN "httpStop" ELSE "grpcStop"
Alive(r) == proc["main"] # "exited" /\ proc[r] # "none"

\* runGateway up to its select: the context, the two server goroutines (each
\* starts the goroutine that waits for ctx.Done() before it serves), the
\* signal channel
runGateway ==
    /\ proc = NotStarted
    /\ proc' = [main |-> "select", http |-> "serve", grpc |-> "serve",
                httpStop |-> "wait", grpcStop |-> "wait"]
    /\ servers' = [http |-> "serving", grpc |-> "serving"]
    /\ UNCHANGED <<ctxDone, inflight, ExceptSup>>

\* a server takes a request, and answers it
Accept ==
    /\ \E s \in {"http", "grpc"} :
         /\ Alive(s) /\ servers[s] = "serving" /\ s \notin inflight
         /\ inflight' = inflight \cup {s}
    /\ UNCHANGED <<proc, ctxDone, servers, ExceptSup>>

Respond ==
    /\ proc["main"] # "exited"
    /\ \E s \in inflight : inflight' = inflight \ {s}
    /\ UNCHANGED <<proc, ctxDone, servers, ExceptSup>>

\* ListenAndServe / Serve returns an error: the goroutine logs it and is about
\* to call cancel()
ListenerFails ==
    /\ \E s \in {"http", "grpc"} :
         /\ Alive(s) /\ proc[s] = "serve" /\ servers[s] = "serving"
         /\ servers' = [servers EXCEPT ![s] = "failed"]
         /\ proc' = [proc EXCEPT ![s] = "cancel"]
    /\ UNCHANGED <<ctxDone, inflight, ExceptSup>>

Cancel ==
    /\ \E s \in {"http", "grpc"} :
         /\ Alive(s) /\ proc[s] = "cancel"
         /\ ctxDone' = TRUE
         /\ proc' = [proc EXCEPT ![s] = "done"]
    /\ UNCHANGED <<servers, inflight, ExceptSup>>

\* select: case <-shutdownCh (SIGINT or SIGTERM arrived)
SelectSignal ==
    /\ proc["main"] = "select"
    /\ proc' = [proc EXCEPT !["main"] = "signalled"]
    /\ UNCHANGED <<ctxDone, servers, inflight, ExceptSup>>

\* select: case <-ctx.Done()
SelectDone ==
    /\ proc["main"] = "select" /\ ctxDone
    /\ proc' = [proc EXCEPT !["main"] = "cancelled"]
    /\ UNCHANGED <<ctxDone, servers, inflight, ExceptSup>>

\* gw.Shutdown(shutdownCtx) closes the service clients, which hold nothing, and
\* runGateway returns; its deferred cancel() runs on the way out
Shutdown ==
    /\ proc["main"] \in {"signalled", "cancelled"}
    /\ proc' = [proc EXCEPT !["main"] = "returned"]
    /\ ctxDone' = TRUE
    /\ UNCHANGED <<servers, inflight, ExceptSup>>

\* main returns after runGateway: the process ends with whatever its
\* goroutines were doing
Exit ==
    /\ proc["main"] = "returned"
    /\ proc' = [proc EXCEPT !["main"] = "exited"]
    /\ UNCHANGED <<ctxDone, servers, inflight, ExceptSup>>

\* <-ctx.Done() in the goroutine of a server, then server.Shutdown(5 s) or
\* grpcServer.GracefulStop(): no new requests from here on
StopBegins ==
    /\ \E s \in {"http", "grpc"} :
         /\ Alive(Watcher(s)) /\ proc[Watcher(s)] = "wait" /\ ctxDone
         /\ proc' = [proc EXCEPT ![Watcher(s)] = "stopping"]
         /\ servers' = [servers EXCEPT ![s] = IF @ = "serving" THEN "stopping" ELSE @]
    /\ UNCHANGED <<ctxDone, inflight, ExceptSup>>

\* Shutdown / GracefulStop returns once the requests in flight are answered;
\* Serve returns with it
StopEnds ==
    /\ \E s \in {"http", "grpc"} :
         /\ Alive(Watcher(s)) /\ proc[Watcher(s)] = "stopping" /\ s \notin inflight
         /\ proc' = [proc EXCEPT ![Watcher(s)] = "done",
                                 ![s] = IF @ = "serve" THEN "done" ELSE @]
         /\ servers' = [servers EXCEPT ![s] = IF @ = "stopping" THEN "stopped" ELSE @]
    /\ UNCHANGED <<ctxDone, inflight, ExceptSup>>

\* the five seconds of the HTTP server's Shutdown pass with a request still in
\* flight: Shutdown returns the context's error
StopTimesOut ==
    /\ Alive("httpStop") /\ proc["httpStop"] = "stopping" /\ "http" \in inflight
    /\ proc' = [proc EXCEPT !["httpStop"] = "done", !["http"] = IF @ = "serve" THEN "done" ELSE @]
    /\ servers' = [servers EXCEPT !["http"] = IF @ = "stopping" THEN "timed out" ELSE @]
    /\ UNCHANGED <<ctxDone, inflight, ExceptSup>>

(* ---------------- the event-bus consumer --------------------------------- *)

ExceptBus == <<gatewayVars, mqttVars, facadeVars, chainVars, readyVars, registryVars, supVars>>

\* config.MaxDeliver as SubscribeToEvents sets it
MaxDeliver == 3

\* "m1" carries an event, "m2" bytes that json.Unmarshal refuses
Decodes(m) == m = "m1"

\* variant: the callback goes on to Ack after the handler's error
Consume_noReturn(decodes, handlerErr) ==
    IF ~decodes THEN [handled |-> FALSE, calls |-> <<"Nak">>]
    ELSE IF handlerErr THEN [handled |-> TRUE, calls |-> <<"Nak", "Ack">>]
    ELSE [handled |-> TRUE, calls |-> <<"Ack">>]

\* the callback given to consumer.Consume: whether it calls the handler, and
\* the calls it makes on the message
Consume(decodes, handlerErr) ==
    IF ~decodes THEN [handled |-> FALSE, calls |-> <<"Nak">>]
    ELSE IF handlerErr THEN [handled |-> TRUE, calls |-> <<"Nak">>]
    ELSE [handled |-> TRUE, calls |-> <<"Ack">>]

\* SubscribeToEvents up to <-ctx.Done(): the durable consumer is created and
\* consuming starts
SubscribeToEvents ==
    /\ ~events.consuming
    /\ events' = [events EXCEPT !.consuming = TRUE]
    /\ UNCHANGED <<settled, ExceptBus>>

\* ctx is cancelled: consumeCtx.Stop()
StopConsuming ==
    /\ events.consuming
    /\ events' = [events EXCEPT !.consuming = FALSE]
    /\ UNCHANGED <<settled, ExceptBus>>

PublishEvent ==
    /\ \E m \in Messages :
         /\ events.msg[m].state = "none"
         /\ events' = [events EXCEPT !.msg[m].state = "pending"]
    /\ UNCHANGED <<settled, ExceptBus>>

\* one delivery: the server hands a pending message (never acknowledged, or
\* nak'd, or its AckWait over) to the callback; the message is acknowledged
\* when an Ack reaches the server, and given up after MaxDeliver deliveries
Deliver ==
    /\ events.consuming
    /\ \E m \in Messages, handlerErr \in BOOLEAN, reaches \in BOOLEAN :
         LET c == Consume(Decodes(m), handlerErr)
             n == events.msg[m].deliveries + 1
             acked == reaches /\ c.calls[Len(c.calls)] = "Ack"
         IN /\ events.msg[m].state = "pending"
            /\ events.msg[m].deliveries < MaxDeliver
            /\ (~c.handled => ~handlerErr)
            /\ (c.calls[Len(c.calls)] = "Nak" => reaches)
            /\ events' = [events EXCEPT !.msg[m] =
                            [deliveries |-> n,
                             state |-> IF acked THEN "acked"
                                       ELSE IF n = MaxDeliver THEN "given up"
                                       ELSE "pending"]]
            /\ settled' = settled \cup
                 { [msg |-> m, delivery |-> n, decoded |-> Decodes(m), handled |-> c.handled,
                    handlerErr |-> handlerErr, calls |-> c.calls] }
    /\ UNCHANGED ExceptBus

(* ---------------- specifications ---------------------------------------- *)

\* the gateway as wired by SetupHTTPRoutes
Next ==
    \/ ReceiveWired \/ Refill
    \/ Recovery \/ RequestLogger \/ RequestID \/ CORS \/ RateLimit
    \/ UnifiedAuthentication \/ handleJWTAuth \/ checkResourcePermissions
    \/ handleAPIKeyAuth \/ AuthenticationFailed
    \/ RouteHandler \/ DynamicProxy \/ Complete \/ Finish

Spec == Init /\ [][Next]_vars

\* UnifiedAuthentication mounted in front of one handler, for every path
InitMW ==
    /\ consul \in ConsulStates
    /\ cfg = [cors |-> FALSE, rateLimit |-> FALSE, blockchain |-> FALSE]
    /\ tokens = Burst /\ backToBack = NoRun
    /\ Idle /\ Beside

NextMW ==
    \/ ReceiveMounted
    \/ UnifiedAuthentication \/ handleJWTAuth \/ checkResourcePermissions
    \/ handleAPIKeyAuth \/ AuthenticationFailed
    \/ RouteHandler \/ Complete \/ Finish

SpecMW == InitMW /\ [][NextMW]_vars

\* UnifiedAuthentication mounted in front of one handler, for the requests that
\* exercise internal-service recognition: service headers, peer address,
\* X-Forwarded-For and User-Agent in every combination
InternalRequests ==
    { r \in Requests :
        /\ r.method = "GET" /\ r.origin = ""
        /\ r.path \in {P_users_me, P_gateway_metrics}
        /\ r.authorization \in {<<>>, H_bearer_tok}
        /\ r.keyHeader = "" /\ r.keyQuery = "" /\ r.keyCookie = ""
        /\ r.accept = <<>> }

ReceiveInternal ==
    /\ pc = "idle"
    /\ \E r \in InternalRequests : req' = r
    /\ chain' = <<"UnifiedAuthentication", "handler">>
    /\ index' = 1 /\ pc' = "run"
    /\ UNCHANGED <<envVars, limVars, sideVars, aborted, respVars, authVars, downVars>>

NextInternal ==
    \/ ReceiveInternal
    \/ UnifiedAuthentication \/ handleJWTAuth \/ checkResourcePermissions
    \/ handleAPIKeyAuth \/ AuthenticationFailed
    \/ RouteHandler \/ Complete \/ Finish

SpecInternal == InitMW /\ [][NextInternal]_vars

\* UnifiedAuthentication mounted in front of one handler, for Bearer requests to
\* every path made of a resource prefix and a sub-path
X_pfx_users == <<"/", "a", "p", "i", "/", "v", "1", "/", "u", "s", "e", "r", "s", "/">>
S_balance == <<"b", "a", "l", "a", "n", "c", "e", "/", "a", "1">>
S_transaction == <<"t", "r", "a", "n", "s", "a", "c", "t", "i", "o", "n">>
S_status == <<"s", "t", "a", "t", "u", "s">>
S_block == <<"b", "l", "o", "c", "k", "/", "7">>
S_api_chat == <<"a", "p", "i", "/", "c", "h", "a", "t">>
S_search == <<"s", "e", "a", "r", "c", "h">>
S_tools_call == <<"t", "o", "o", "l", "s", "/", "c", "a", "l", "l">>
S_prompts_get == <<"p", "r", "o", "m", "p", "t", "s", "/", "g", "e", "t">>
S_other == <<"x", "1">>
GatePrefixes == <<L_pfx_blockchain, L_pfx_agents, L_pfx_mcp, L_pfx_gateway, X_pfx_users>>
GateSuffixes ==
    <<S_balance, S_transaction, S_status, S_block, S_api_chat, S_search, S_tools_call,
      S_prompts_get, S_other, <<>> >>
GatePath(i, j) == GatePrefixes[i] \o GateSuffixes[j]

GateRequests ==
    { [NoRequest EXCEPT !.method = m, !.path = GatePath(i, j), !.authorization = H_bearer_tok,
                        !.remoteAddr = IP_remote, !.userAgent = UA_browser] :
        m \in Methods, i \in DOMAIN GatePrefixes, j \in DOMAIN GateSuffixes }

ReceiveGate ==
    /\ pc = "idle"
    /\ \E r \in GateRequests : req' = r
    /\ chain' = <<"UnifiedAuthentication", "handler">>
    /\ index' = 1 /\ pc' = "run"
    /\ UNCHANGED <<envVars, limVars, sideVars, aborted, respVars, authVars, downVars>>

NextGate ==
    \/ ReceiveGate
    \/ UnifiedAuthentication \/ handleJWTAuth \/ checkResourcePermissions
    \/ handleAPIKeyAuth \/ AuthenticationFailed
    \/ RouteHandler \/ Complete \/ Finish

SpecGate == InitMW /\ [][NextGate]_vars

\* DynamicProxy.Handler alone, for every Accept header and every registry
ProxyPaths ==
    { P_users_me, P_users_bare, P_user_sessions, P_accounts, P_agents_chat, P_models,
      P_mcp_tools_call, P_payments, P_gateway_metrics, P_healthz }

ProxyRequests ==
    { [NoRequest EXCEPT !.method = "GET", !.path = p, !.accept = a,
                        !.remoteAddr = IP_remote, !.userAgent = UA_browser] :
        p \in ProxyPaths, a \in AcceptHeaders }

ProxyConsulStates ==
    ConsulStates \cup
    { [nil |-> FALSE, up |-> TRUE, services |-> {"sessions", "agents", "payments", "models"},
         healthy |-> {<<N_sessions, {"sse"}>>, <<N_agents, {"streaming"}>>,
                      <<N_payments, {"api"}>>, <<N_models, {"sse", "api"}>>}],
      [nil |-> FALSE, up |-> TRUE, services |-> {"sessions", "users", "payments", "mcp"},
         healthy |-> {<<N_sessions, {"api"}>>, <<N_users, {"streaming"}>>,
                      <<N_payments, {"sse"}>>, <<N_mcp, {}>>}] }

InitProxy ==
    /\ consul \in ProxyConsulStates
    /\ cfg = [cors |-> FALSE, rateLimit |-> FALSE, blockchain |-> FALSE]
    /\ tokens = Burst /\ backToBack = NoRun
    /\ Idle /\ Beside

ReceiveProxy ==
    /\ pc = "idle"
    /\ \E r \in ProxyRequests : req' = r
    /\ chain' = <<"DynamicProxy">>
    /\ index' = 1 /\ pc' = "run"
    /\ UNCHANGED <<envVars, limVars, sideVars, aborted, respVars, authVars, downVars>>

NextProxy ==
    \/ ReceiveProxy
    \/ DynamicProxy \/ StreamLine \/ StreamEnd
    \/ Complete \/ Finish

SpecProxy == InitProxy /\ [][NextProxy]_vars

\* the MQTT adapter, one operation at a time
InitMQTT ==
    /\ consul = CHOOSE c \in ConsulStates : c.nil
    /\ cfg = [cors |-> FALSE, rateLimit |-> FALSE, blockchain |-> FALSE]
    /\ tokens = Burst /\ backToBack = NoRun
    /\ Idle
    /\ Apart
    /\ \E c \in MqttConfigs : NewAdapter(c)
    /\ NewGateway([enabled |-> TRUE, chainConfigured |-> TRUE, contracts |-> AllContracts])

NextMQTT ==
    \/ Connect \/ onConnectionLost \/ Reconnect \/ Disconnect
    \/ Subscribe \/ handleMessage

SpecMQTT == InitMQTT /\ [][NextMQTT]_vars

\* the blockchain facade: its high-level operations, and Close, the status
\* endpoint and the health check statement by statement
InitFacade ==
    /\ consul = CHOOSE c \in ConsulStates : c.nil
    /\ cfg = [cors |-> FALSE, rateLimit |-> FALSE, blockchain |-> TRUE]
    /\ tokens = Burst /\ backToBack = NoRun
    /\ Idle
    /\ Apart
    /\ NewAdapter([cleanSession |-> TRUE, deviceEnabled |-> TRUE])
    /\ \E c \in FacadeConfigs : NewGateway(c)

NextFacade ==
    \/ HighLevelOperation
    \/ CloseLock \/ CloseDisconnect \/ CloseUnlock
    \/ StatusGetChain \/ StatusGetBlockNumber \/ StatusIsConnected
    \/ HealthRLock \/ HealthIsConnected \/ HealthRUnlock

SpecFacade == InitFacade /\ [][NextFacade]_vars

\* the rate limiter mounted in front of one handler, with time passing
\* between requests
LimiterRequests ==
    { [NoRequest EXCEPT !.method = m, !.path = p, !.remoteAddr = IP_remote, !.userAgent = UA_curl] :
        m \in Methods, p \in {L_health, P_users_me, P_agents_chat} }

InitLimiter ==
    /\ consul = CHOOSE c \in ConsulStates : c.nil
    /\ cfg = [cors |-> FALSE, rateLimit |-> TRUE, blockchain |-> FALSE]
    /\ tokens = Burst /\ backToBack = NoRun
    /\ Idle /\ Beside

ReceiveLimited ==
    /\ pc = "idle"
    /\ \E r \in LimiterRequests : req' = r
    /\ chain' = <<"RateLimit", "handler">>
    /\ index' = 1 /\ pc' = "run"
    /\ UNCHANGED <<envVars, limVars, sideVars, aborted, respVars, authVars, downVars>>

NextLimiter ==
    \/ ReceiveLimited \/ Refill \/ RateLimit \/ RouteHandler \/ Complete \/ Finish

\* every request that has arrived is served to the end, another request
\* always arrives, and time does not stop: the bucket is refilled again and
\* again for as long as it is not full
SpecLimiter ==
    /\ InitLimiter /\ [][NextLimiter]_vars
    /\ WF_vars(ReceiveLimited) /\ WF_vars(RateLimit) /\ WF_vars(RouteHandler)
    /\ WF_vars(Complete) /\ WF_vars(Finish)
    /\ SF_vars(Refill)

\* the MQTT adapter with its goroutines interleaved: the application in
\* Subscribe, the library's connection goroutine in onConnect, a subscription
\* callback in handleMessage, an HTTP handler in GetStats
InitGoroutines ==
    /\ consul = CHOOSE c \in ConsulStates : c.nil
    /\ cfg = [cors |-> FALSE, rateLimit |-> FALSE, blockchain |-> FALSE]
    /\ tokens = Burst /\ backToBack = NoRun
    /\ Idle /\ Beside

NextGoroutines ==
    \/ SubscribeCall \/ onConnectCall \/ onConnectFlag \/ onConnectLookup
    \/ \E g \in {"app", "conn"} :
          SubscribeLock(g) \/ SubscribeStore(g) \/ SubscribeUnlock(g) \/ SubscribeAtBroker(g)
    \/ ConnectionDrops
    \/ handleMessageCall \/ handleMessageRLock \/ handleMessageRange \/ handleMessageRUnlock
    \/ GetStats
    \/ RuntimeAborts

SpecGoroutines == InitGoroutines /\ [][NextGoroutines]_vars

\* the handler handleMessage runs returns: its HTTP call and its publish do
HandlerReturns == Now("paho", "range") /\ Move("paho", "RUnlock")

\* the same, with every goroutine that can run scheduled in the end, the
\* handler (its HTTP call and its publish) and the broker's answer to
\* client.Subscribe returning, and a writer blocked in Lock handed the mutex
\* once it is free (sync.Mutex hands over to a waiter that has starved)
SpecGoroutinesFair ==
    /\ SpecGoroutines
    /\ \A g \in {"app", "conn"} :
          /\ SF_vars(SubscribeLock(g)) /\ WF_vars(SubscribeStore(g))
          /\ WF_vars(SubscribeUnlock(g)) /\ WF_vars(SubscribeAtBroker(g))
    /\ WF_vars(onConnectFlag) /\ WF_vars(onConnectLookup)
    /\ WF_vars(handleMessageRLock) /\ WF_thr(HandlerReturns)
    /\ WF_vars(handleMessageRUnlock)

\* the chain registry of the facade, called in any order
InitChains ==
    /\ consul = CHOOSE c \in ConsulStates : c.nil
    /\ cfg = [cors |-> FALSE, rateLimit |-> FALSE, blockchain |-> TRUE]
    /\ tokens = Burst /\ backToBack = NoRun
    /\ Idle /\ Apart
    /\ NewAdapter([cleanSession |-> TRUE, deviceEnabled |-> TRUE])
    /\ \E c \in FacadeConfigs : NewGateway(c)

NextChains ==
    \/ RegisterChain \/ GetChain \/ SetDefaultChain \/ GetDefaultChain \/ Close

SpecChains == InitChains /\ [][NextChains]_vars

\* the ISA adapter behind the facade and the five blockchain routes
NextAdapter ==
    \/ AdapterConnect \/ AdapterDisconnect \/ AdapterIsConnected \/ AdapterGetChainID
    \/ AdapterOperation \/ Close \/ BlockchainEndpoint

SpecAdapter == InitChains /\ [][NextAdapter]_vars

\* the two probes while the backends come and go
InitProbes ==
    /\ consul = CHOOSE c \in ConsulStates : c.nil
    /\ cfg = [cors |-> FALSE, rateLimit |-> FALSE, blockchain |-> FALSE]
    /\ tokens = Burst /\ backToBack = NoRun
    /\ Idle /\ Beside

NextProbes == BackendChanges \/ GetReady \/ GetHealth

SpecProbes == InitProbes /\ [][NextProbes]_vars

\* the registry client against a Consul agent
NextRegistry ==
    \/ CallRegisterService \/ CallDeregisterService \/ CallDiscoverService
    \/ CallGetHealthyInstance \/ CallRegisterBlockchainServices \/ CallDeregisterAll
    \/ CheckRuns \/ ReapCritical

SpecRegistry == InitProbes /\ [][NextRegistry]_vars

\* the process from runGateway to its end
NextSupervisor ==
    \/ runGateway \/ Accept \/ Respond \/ ListenerFails \/ Cancel
    \/ SelectSignal \/ SelectDone \/ Shutdown \/ Exit
    \/ StopBegins \/ StopEnds \/ StopTimesOut

SpecSupervisor == InitProbes /\ [][NextSupervisor]_vars

\* the durable consumer and its stream
NextEventBus == SubscribeToEvents \/ StopConsuming \/ PublishEvent \/ Deliver

SpecEventBus == InitProbes /\ [][NextEventBus]_vars

(* ---------------- properties -------------------------------------------- *)

\* the public paths as the specification documents them
DocumentedPublic(path) ==
    path = L_health \/ path = L_ready \/ HasPrefix(path, L_gateway_services)

\* the request context carries an authenticated principal
Accepted == ctx.is_internal = "true" \/ ctx.auth_method \in {"jwt", "api_key"}

NoCredentials(r) ==
    /\ r.serviceName = "" /\ r.serviceSecret = ""
    /\ r.authorization = <<>> /\ APIKeyOf(r) = ""

SelectorNonEmpty(path) == getResourceInfoFromPath(path) # <<"", <<>>, "">>

IsPrefix(s, t) == Len(s) <= Len(t) /\ SubSeq(t, 1, Len(s)) = s

\* C1: a request is forwarded to a backend only after the authentication
\* middleware accepted it or on a documented public path, and a request without
\* credentials to a non-public /api/v1/{service}/... path is answered 401 and is
\* neither forwarded nor handled.
C1_ForwardedOnlyWhenAuthenticated ==
    /\ forwarded.via # "none" => (Accepted \/ DocumentedPublic(req.path))
    /\ ( /\ pc = "done" /\ status # 429
         /\ NoCredentials(req)
         /\ HasPrefix(req.path, L_api_v1) /\ ~DocumentedPublic(req.path) )
       => (status = 401 /\ handlerRan = "" /\ forwarded.via = "none")

\* C2: for a JWT-authenticated request with a non-empty resource selector the
\* downstream handler runs only after has_access=true or a failed authorization
\* call, and never after has_access=false.
C2_HandlerOnlyAfterAllow ==
    /\ (handlerRan # "" /\ outcomes.verifyToken = "ok" /\ SelectorNonEmpty(req.path))
         => outcomes.checkAccess \in {"ok", "error", "garbled"}
    /\ outcomes.checkAccess = "no" => (handlerRan = "" /\ forwarded.via = "none")

C2_Witness ==
    /\ pc = "done" /\ handlerRan = "handler"
    /\ outcomes.verifyToken = "ok" /\ outcomes.checkAccess = "ok"
    /\ SelectorNonEmpty(req.path)

\* C3: a valid JWT with has_access=false is answered 403 with the chain aborted
\* and nothing forwarded, whatever API key the request also carries.
C3_DeniedIs403 ==
    (outcomes.verifyToken = "ok" /\ outcomes.checkAccess = "no")
      => /\ status = 403 /\ aborted
         /\ bodies[1] = "insufficient permissions"
         /\ handlerRan = "" /\ forwarded.via = "none"

C3_Witness ==
    /\ pc = "done" /\ status = 403
    /\ outcomes.checkAccess = "no"
    /\ req.keyHeader # "" /\ outcomes.verifyAPIKey = "ok"

\* C4: for a request authenticated by JWT, /check-access is called exactly once
\* when the path's resource selector is non-empty and not at all when it is empty.
C4_CheckAccessExactlyOnce ==
    /\ (pc = "done" /\ outcomes.verifyToken = "ok")
         => calls.checkAccess = (IF SelectorNonEmpty(req.path) THEN 1 ELSE 0)
    /\ calls.checkAccess <= 1

C4_Witness ==
    /\ pc = "done" /\ outcomes.verifyToken = "ok"
    /\ SelectorNonEmpty(req.path) /\ calls.checkAccess = 1

C4_WitnessEmptySelector ==
    /\ pc = "done" /\ outcomes.verifyToken = "ok" /\ handlerRan = "handler"
    /\ ~SelectorNonEmpty(req.path) /\ calls.checkAccess = 0

\* C5: a request whose principal is an API-key user has made no call to the
\* authorization service.
C5_NoCheckAccessForAPIKey ==
    ctx.auth_method = "api_key" => calls.checkAccess = 0

\* C6: when the /check-access call fails with a transport error the request
\* proceeds to its handler as after a grant, and no 403 is written.
C6_FailOpen ==
    (pc = "done" /\ outcomes.checkAccess = "error")
      => /\ handlerRan = "handler" /\ ~aborted
         /\ status = 200 /\ bodies = <<"handler">>
         /\ calls.verifyAPIKey = 0

C6_Witness ==
    /\ pc = "done" /\ outcomes.checkAccess = "error" /\ handlerRan = "handler"

\* C7 as claimed: on a protected path, a Bearer token that the identity service
\* rejects (valid=false) or cannot be verified (transport error) yields 401 and
\* the handler does not run.
C7_RejectedTokenIs401 ==
    ( /\ pc = "done"
      /\ ~isPublicEndpoint(req.path)
      /\ outcomes.verifyToken \in {"no", "error"} )
      => (status = 401 /\ handlerRan = "" /\ ctx.auth_method = "")

\* C7 as amended: the same, for a request that carries no API key the identity
\* service accepts.
C7_RejectedTokenIs401UnlessAPIKey ==
    ( /\ pc = "done"
      /\ ~isPublicEndpoint(req.path)
      /\ outcomes.verifyToken \in {"no", "error"}
      /\ outcomes.verifyAPIKey # "ok" )
      => (status = 401 /\ aborted /\ handlerRan = "" /\ ctx.auth_method = "")

C7_Witness ==
    /\ pc = "done" /\ status = 401
    /\ outcomes.verifyToken = "error"
    /\ APIKeyOf(req) # "" /\ outcomes.verifyAPIKey = "no"

\* C8: the steps run in the order public bypass, internal-service recognition,
\* JWT flow, API-key flow; a request on a public path or recognised as an
\* internal service causes no identity or authorization call; /check-access is
\* called only after a verified token and /verify-api-key only when the JWT
\* flow did not succeed.
C8_OrderAndShortCircuit ==
    /\ IsPrefix(flow, <<"public", "internal", "jwt", "apikey">>)
    /\ Len(flow) <= 2 => calls = NoCalls
    /\ (pc # "idle" /\ DocumentedPublic(req.path)) => calls = NoCalls
    /\ ctx.is_internal = "true" => calls = NoCalls
    /\ calls.checkAccess > 0 => outcomes.verifyToken = "ok"
    /\ calls.verifyAPIKey > 0
         => (outcomes.verifyToken # "ok" \/ outcomes.checkAccess = "no")

C8_Witness ==
    /\ pc = "done" /\ handlerRan = "handler"
    /\ flow = <<"public", "internal", "jwt", "apikey">>
    /\ calls = [verifyToken |-> 1, verifyAPIKey |-> 1, checkAccess |-> 0]

\* C9: a request passes the middleware without a principal only on /health,
\* /ready or a path starting with /api/v1/gateway/services; every other path
\* goes through the internal / JWT / API-key steps.
C9_AnonymousOnlyOnDocumentedPaths ==
    /\ (handlerRan # "" /\ ctx = NoCtx) => DocumentedPublic(req.path)
    /\ (pc = "done" /\ ~DocumentedPublic(req.path)) => Len(flow) >= 2

\* C10: GET /api/v1/gateway/services with X-Service-Name and X-Service-Secret of
\* a registered service returns 200 with the internal-service principal recorded.
C10_InternalPrincipalOnServices ==
    ( /\ pc = "done" /\ status # 429
      /\ req.method = "GET" /\ req.path = L_gateway_services
      /\ req.serviceName # "" /\ req.serviceSecret # ""
      /\ ~consul.nil /\ consul.up /\ req.serviceName \in consul.services )
      => /\ status = 200
         /\ ctx.is_internal = "true"
         /\ ctx.service_name = req.serviceName


\* the loopback addresses, and the inbound User-Agent values that carry one of
\* the client-library fingerprints
Loopback(ip) == ip = L_ip4_loopback \/ ip = L_ip6_loopback
FingerprintedAgents == {UA_curl, UA_HTTPX}

\* C11: a request is accepted as the local-development service only when its
\* client address is loopback and its User-Agent carries a known fingerprint; a
\* request whose connection comes from a non-loopback address is never accepted
\* that way, whatever headers it carries; and the X-Service-Name principal is
\* never attached when the registry is nil, unreachable or does not list the name.
C11_InternalOnlyWhenVouched ==
    /\ ctx.user_id = <<"local-dev-service">>
         => /\ Loopback(req.remoteAddr)
            /\ req.userAgent \in FingerprintedAgents
    /\ ctx.service_name # ""
         => /\ ~consul.nil /\ consul.up
            /\ req.serviceName # "" /\ req.serviceName \in consul.services


\* the documented resource table, by resource prefix and sub-path
TableSelector(i, j) ==
    CASE i = 1 -> <<"api_endpoint",
                    <<"blockchain_",
                      CASE j = 1 -> "balance_check" [] j = 2 -> "transaction"
                        [] j = 3 -> "status" [] OTHER -> "blockchain_general">>,
                    "read_only">>
      [] i = 2 -> <<"api_endpoint", <<"agent_chat">>,
                    IF j = 5 THEN "read_write" ELSE "read_only">>
      [] i = 3 -> <<"mcp_tool",
                    <<CASE j = 6 -> "search" [] j = 7 -> "tool_execution"
                        [] j = 8 -> "prompt_access" [] OTHER -> "mcp_general">>,
                    IF j = 7 THEN "read_write" ELSE "read_only">>
      [] i = 4 -> <<"api_endpoint", <<"gateway_management">>, "read_only">>
      [] OTHER -> <<"", <<>>, "">>

\* C12: for every request path the resource selector derived for the
\* permission check is the one the documented prefix table gives; in
\* particular POST /api/v1/blockchain/transaction is blockchain_transaction /
\* read_only and POST /api/v1/mcp/tools/call is tool_execution / read_write.
C12_SelectorIsTable ==
    (outcomes.verifyToken = "ok" /\ pc # "perm")
      => \A i \in DOMAIN GatePrefixes, j \in DOMAIN GateSuffixes :
            req.path = GatePath(i, j) => selector = TableSelector(i, j)

C12_Witness ==
    /\ pc = "done" /\ req.method = "POST" /\ req.path = P_mcp_tools_call
    /\ calls.checkAccess = 1
    /\ selector = <<"mcp_tool", <<"tool_execution">>, "read_write">>

C12_WitnessBlockchain ==
    /\ pc = "done" /\ req.method = "POST" /\ req.path = P_blockchain_tx
    /\ calls.checkAccess = 1
    /\ selector = <<"api_endpoint", <<"blockchain_", "transaction">>, "read_only">>


\* the paths Handler proxies, the registry's view of a logical service, and the
\* static names of the documented configuration
Proxied(path) == HasPrefix(path, L_api_v1) /\ ~HasPrefix(path, L_pfx_gateway)
HealthyInRegistry(name) ==
    ~consul.nil /\ consul.up /\ \E e \in consul.healthy : e[1] = name
ConfiguredNames == {N_users, N_accounts, N_auth, N_agents, N_models, N_mcp}

\* C13: whenever the registry returns a healthy instance of the logical
\* service, the request goes to that instance; the static fallback is used
\* only when the registry is nil, unreachable or has no healthy instance, so
\* configured services are still routed without a registry.
C13_RegistryBeforeStatic ==
    (handlerRan = "DynamicProxy" /\ Proxied(req.path))
      => LET name == ServiceNameOf(req.path) IN
         /\ HealthyInRegistry(name)
              => (upstream.called /\ upstream.target = <<"consul", name>>)
         /\ (upstream.called /\ upstream.target[1] = "config")
              => (~HealthyInRegistry(name) /\ name \in ConfiguredNames)
         /\ (~HealthyInRegistry(name) /\ name \in ConfiguredNames)
              => (upstream.called /\ upstream.target[1] = "config")

C13_Witness ==
    /\ pc = "done" /\ req.path = P_users_me
    /\ upstream.called /\ upstream.target = <<"consul", N_users>>

\* C14: the SSE proxy serves the request exactly when the instance the
\* registry selected carries the tag sse or streaming; the static fallback is
\* always served by a standard reverse proxy.
C14_SSEIffTagged ==
    upstream.called
      => /\ (upstream.by \in {"proxySSE", "proxyHTTP"})
              <=> ( /\ upstream.target[1] = "consul"
                    /\ \E e \in consul.healthy :
                         /\ e[1] = upstream.target[2]
                         /\ ("sse" \in e[2] \/ "streaming" \in e[2]) )
         /\ upstream.target[1] = "config" => upstream.by = "static"

C14_Witness ==
    /\ pc = "done" /\ req.path = P_agents_chat
    /\ upstream.by = "proxySSE"
    /\ <<N_agents, {"streaming"}>> \in consul.healthy

\* C15: a request to /api/v1/users/{id}/sessions/... is routed to the logical
\* service sessions, and the path sent upstream is the full original path
\* under both proxy strategies.
C15_SessionsKeepFullPath ==
    (handlerRan = "DynamicProxy" /\ req.path = P_user_sessions)
      => /\ forwarded.via # "none" => forwarded.service = N_sessions
         /\ upstream.called => upstream.path = req.path

\* the upstream path as documented: the inbound path for agents and models,
\* otherwise the inbound path without its /api/v1/{service} prefix
DocumentedUpstreamPath(path) ==
    LET seg == SplitN2(TrimPrefix(path, L_api_v1), "/")[1]
        rest == TrimPrefix(path, L_api_v1 \o seg)
    IN  IF seg \in {N_agents, N_models} THEN path
        ELSE IF rest = <<>> THEN <<"/">> ELSE rest

\* C16: whichever proxy serves the request, the path sent upstream is the
\* inbound path for agents and models and the inbound path without
\* /api/v1/{service} for every other service; the standard and the SSE
\* strategy compute the same upstream path.
C16_SameUpstreamPath ==
    (Proxied(req.path) /\ req.path # P_user_sessions)
      => /\ upstream.called => upstream.path = DocumentedUpstreamPath(req.path)
         /\ ReverseProxyPath(req.path) = proxySSEPath(req.path)
         /\ proxyHTTPPath(req.path) = proxySSEPath(req.path)

\* C17: when the registry is nil or has no healthy instance and the static map
\* has no entry for the logical service, the answer is 404 "Service not found"
\* and no upstream call is made.
C17_UnknownServiceIs404 ==
    ( /\ pc = "done" /\ handlerRan = "DynamicProxy" /\ Proxied(req.path)
      /\ ~HealthyInRegistry(ServiceNameOf(req.path))
      /\ ServiceNameOf(req.path) \notin ConfiguredNames )
      => /\ status = 404 /\ bodies = <<"Service not found">>
         /\ ~upstream.called /\ forwarded.via = "none"

C17_Witness ==
    /\ pc = "done" /\ req.path = P_payments /\ consul.nil
    /\ status = 404 /\ bodies = <<"Service not found">> /\ ~upstream.called

AccessControlHeaders ==
    { "Access-Control-Allow-Origin", "Access-Control-Allow-Methods",
      "Access-Control-Allow-Headers", "Access-Control-Allow-Credentials",
      "Access-Control-Max-Age", "Access-Control-Expose-Headers" }

\* C18: on every proxy path the client sees the upstream's status code and no
\* Access-Control-* header that came from the upstream.
C18_UpstreamStatusWithoutCORS ==
    (pc = "done" /\ upstream.called /\ ~upstream.reply.err)
      => /\ status = upstream.reply.status
         /\ \A h \in respHeaders : h[2] = "upstream" => h[1] \notin AccessControlHeaders

\* C19: when the upstream cannot be reached, every proxy path answers 502 with
\* the JSON error "Service unavailable: <err>".
C19_DialErrorIs502Unavailable ==
    (pc = "done" /\ upstream.called /\ upstream.reply.err)
      => (status = 502 /\ bodies = <<"Service unavailable: err">>)

\* the bytes of a body with every line end normalised to one newline
RECURSIVE WithoutLineCR(_)
WithoutLineCR(x) ==
    IF x = <<>> THEN <<>>
    ELSE IF Head(x) = "\r" /\ (Len(x) = 1 \/ x[2] = "\n") THEN WithoutLineCR(Tail(x))
    ELSE <<Head(x)>> \o WithoutLineCR(Tail(x))
ExpectedOut(x) ==
    IF x # <<>> /\ x[Len(x)] # "\n" THEN WithoutLineCR(x) \o <<"\n">> ELSE WithoutLineCR(x)

\* what the scanner has consumed, and the positions of the written bytes at
\* which a blank line ends
Consumed == SubSeq(stream.body, 1, Len(stream.body) - Len(stream.rest))
BlankLineEnds(out) ==
    { p \in 1..Len(out) : out[p] = "\n" /\ (p = 1 \/ out[p - 1] = "\n") }
FlushesAt(n) == { stream.flushes[i] : i \in 1..n }
Streaming == upstream.by = "proxySSE" /\ upstream.reply.eventStream

\* the upstream lines are written in order, each followed by one newline, and
\* once the upstream body is at its end nothing more is written
LinesInOrder ==
    /\ stream.out = ExpectedOut(Consumed)
    /\ stream.end = "eof" => (stream.rest = <<>> /\ pc # "stream")

TokensInRange == tokens >= 0 /\ tokens <= Burst

\* what one pass of a request through the limiter may do
LimiterStep ==
    (pc = "run" /\ ~aborted /\ index <= Len(chain) /\ chain[index] = "RateLimit"
       /\ <<tokens, aborted, index, status>>' # <<tokens, aborted, index, status>>)
    => \/ tokens > 0 /\ tokens' = tokens - 1 /\ ~aborted' /\ index' = index + 1
          /\ status' = status
       \/ tokens = 0 /\ tokens' = 0 /\ aborted' /\ status' = 429 /\ index' = index

BurstIsBounded == backToBack.requests > Burst => backToBack.rejected

Rejected == pc = "done" /\ status = 429
Admitted == handlerRan = "handler"

\* C21: the limiter is one token bucket of Burst tokens: a request passes iff
\* a token is there and takes it, otherwise it is answered 429 and the chain
\* is aborted; the bucket never holds more than Burst tokens nor fewer than
\* none; of more than Burst requests with no refill between them one at least
\* is answered 429; and after a rejection a request is admitted again
C21_TokenBucket ==
    /\ []TokensInRange
    /\ [][LimiterStep]_vars
    /\ []BurstIsBounded
    /\ (Rejected ~> Admitted)

C21_Witness ==
    /\ pc = "done" /\ status = 429 /\ aborted /\ tokens = 0
    /\ backToBack.requests = Burst + 1 /\ backToBack.rejected
    /\ handlerRan = ""

(* ---------------- the order of the global filters ----------------------- *)

\* the engine-wide filters that have acted on the request so far
Acted ==
    { chain[i] : i \in { j \in DOMAIN chain : j < index \/ (aborted /\ j = index) } }

Position(name) ==
    IF \E i \in DOMAIN chain : chain[i] = name
    THEN CHOOSE i \in DOMAIN chain : chain[i] = name
    ELSE 0

Before(a, b) == Position(a) # 0 /\ Position(b) # 0 => Position(a) < Position(b)

\* C22: the filters run in the order rate limit, request id, logger, CORS,
\* authentication, and the limiter decides before any other filter acts: no
\* request, a CORS preflight or /health included, is answered without having
\* met the limiter
C22_LimiterFirst ==
    (cfg.rateLimit /\ pc # "idle") =>
        /\ Before("RateLimit", "RequestID") /\ Before("RequestID", "RequestLogger")
        /\ Before("RequestLogger", "CORS") /\ Before("CORS", "UnifiedAuthentication")
        /\ (Acted \ {"Recovery"}) # {} => "RateLimit" \in Acted
        /\ pc = "done" => "RateLimit" \in Acted

\* a preflight is answered by the CORS filter and never meets the limiter
C22_PreflightSkipsLimiter ==
    /\ cfg.rateLimit /\ pc = "done" /\ req.method = L_OPTIONS /\ req.path = L_health
    /\ status = 204 /\ "RateLimit" \notin Acted /\ tokens = Burst

(* ---------------- MQTT topic matching and dispatch ---------------------- *)

Levels(topic) == Split(topic, "/")
SomeDelivery == delivered.topic # <<>>

\* devices/X/<leaf> with X one level
DeviceTopic(topic, leaf) ==
    /\ Len(Levels(topic)) = 3
    /\ Levels(topic)[1] = L_devices /\ Levels(topic)[3] = leaf

LeafTelemetry == <<"t", "e", "l", "e", "m", "e", "t", "r", "y">>
LeafStatus == <<"s", "t", "a", "t", "u", "s">>

\* C23: "+" stands for exactly one level: devices/X/telemetry is dispatched
\* under devices/+/telemetry for every one-level X and never under
\* devices/+/status, and a topic with no level or with two levels in the place
\* of "+" is not dispatched under devices/+/telemetry
C23_PlusIsOneLevel ==
    SomeDelivery =>
        /\ DeviceTopic(delivered.topic, LeafTelemetry) => delivered.invoked = <<DeviceTelemetry>>
        /\ DeviceTopic(delivered.topic, LeafStatus) => delivered.invoked = <<DeviceStatus>>
        /\ delivered.invoked = <<DeviceTelemetry>> => DeviceTopic(delivered.topic, LeafTelemetry)
        /\ delivered.invoked = <<DeviceStatus>> => DeviceTopic(delivered.topic, LeafStatus)

C23_Witness ==
    /\ delivered.topic = T_d1_telemetry
    /\ delivered.invoked = <<DeviceTelemetry>> /\ delivered.ran = <<"handleTelemetry">>

C23_WitnessTwoLevels ==
    /\ delivered.topic = T_a_b_telemetry /\ delivered.invoked = <<>>

\* C24: "#" stands for the rest of the topic: a message on devices/a,
\* devices/a/b or devices/a/b/c is dispatched to the handler registered
\* under devices/#
C24_HashIsTail ==
    (SomeDelivery /\ delivered.topic \in {T_a, T_a_b, T_a_b_c}
       /\ S_devices_hash \in delivered.patterns)
    => delivered.invoked = <<S_devices_hash>>

\* the handler the five built-in patterns give a topic
BuiltIn(topic) ==
    IF \E p \in DOMAIN setupDefaultHandlers : matchTopic(p, topic)
    THEN <<setupDefaultHandlers[CHOOSE p \in DOMAIN setupDefaultHandlers : matchTopic(p, topic)]>>
    ELSE <<>>

C26_AllResubscribed ==
    link = "up" => DOMAIN handlers \subseteq subs

\* C27: a telemetry or status message with a JSON object is forwarded as that
\* object with device_id, taken from the topic when the payload has none and
\* left as it is otherwise, in a POST to /api/v1/devices/{id}/telemetry
\* (/status); a payload that is no JSON object is not forwarded
ForwardedAsClaimed(leaf) ==
    LET post == delivered.effect.posts[1]
        sent == post.body
        id == Levels(delivered.topic)[2]
        given == delivered.payload.members
    IN /\ Len(delivered.effect.posts) = 1
       /\ post.method = "POST"
       /\ post.path = L_api_devices \o <<"/">> \o id \o <<"/">> \o leaf
       /\ sent.kind = "object"
       /\ DOMAIN sent.members = DOMAIN given \cup {"device_id"}
       /\ \A k \in DOMAIN given : sent.members[k] = given[k]
       /\ "device_id" \notin DOMAIN given => sent.members["device_id"] = String(id)

C27_ForwardedIsPayloadWithDeviceID ==
    \A leaf \in {LeafTelemetry, LeafStatus} :
        (SomeDelivery /\ DeviceTopic(delivered.topic, leaf) /\ delivered.ran # <<>>) =>
            IF delivered.payload.kind # "object" THEN delivered.effect.posts = <<>>
            ELSE delivered.effect.posts # <<>> => ForwardedAsClaimed(leaf)

\* a small payload goes through unchanged but for device_id
C27_SmallNumbersSurvive ==
    /\ delivered.topic = T_d1_telemetry
    /\ delivered.payload = [kind |-> "object", members |-> [temperature |-> Number(N_half)]]
    /\ Len(delivered.effect.posts) = 1
    /\ delivered.effect.posts[1].body.members =
         [temperature |-> Number(N_half), device_id |-> String(<<"d", "1">>)]

(* ---------------- the handler map and its lock -------------------------- *)

\* the statements that read or write a.handlers
MapStatements == {"store", "range", "lookup", "len"}
HoldsLock(g) == mu.writer = g \/ g \in mu.readers

\* C28: whenever a goroutine is about to read or write the handler map it
\* holds the adapter's lock
C28_MapOnlyUnderLock ==
    \A g \in Goroutines : thr[g].at \in MapStatements => HoldsLock(g)

\* Subscribe is about to write the map under the lock while onConnect is
\* about to read it without
C28_RaceWithOnConnect ==
    /\ thr["app"].at = "store" /\ mu.writer = "app"
    /\ thr["conn"].at = "lookup" /\ ~HoldsLock("conn")

\* the statements of Subscribe and of handleMessage, and where a goroutine
\* is once the call has returned
CallStatements ==
    {"Lock", "Locking", "store", "Unlock", "client.Subscribe",
     "RLock", "RLocking", "range", "RUnlock"}
InCall(g) == thr[g].at \in CallStatements
Completed(g) == thr[g].at \in {"idle", "lookup", "isConnected"}

\* C40: every message callback, Subscribe call and re-subscription of
\* onConnect that has begun gets the handler-map lock it asks for and
\* returns, whatever the other goroutines do
C40_EachAcquiresAndCompletes ==
    \A g \in {"app", "conn", "paho"} : InCall(g) ~> Completed(g)

\* the lock alone blocks no one for ever: a call that has begun returns
\* unless the runtime ends the process
C40_ReturnsUnlessAborted ==
    \A g \in {"app", "conn", "paho"} : InCall(g) ~> (Completed(g) \/ thr[g] = Fatal)

\* a message callback blocked in RLock behind Subscribe when the process ends
C40_AbortedWhileBlocked ==
    /\ thr["paho"] = Fatal
    /\ "paho" \in mu.parked /\ mu.writer = "app"

\* a message callback runs its handler under the read lock while Subscribe
\* waits for the write lock
C40_WriterWaitsForHandler ==
    /\ thr["paho"].at = "range" /\ "paho" \in mu.readers
    /\ thr["app"].at = "Locking" /\ "app" \in mu.waiting

(* ---------------- the blockchain facade --------------------------------- *)

\* the statements that read or write the adapter's connected flag
FlagStatements == {"Disconnect", "GetBlockNumber", "IsConnected"}

\* C29: whenever a goroutine is about to read or write the adapter's
\* connection flag it holds the facade's mutex, so no request handler reads
\* the flag outside the lock while Gateway.Close writes it
C29_FlagOnlyUnderFacadeLock ==
    \A g \in FacadeCallers : callers[g] \in FlagStatements => Holds(g)

\* Close is about to write the flag under the lock while the status endpoint
\* is about to read it without
C29_RaceWithClose ==
    /\ callers["close"] = "Disconnect" /\ gmu.writer = "close"
    /\ callers["status"] = "IsConnected" /\ ~Holds("status")

\* the contract addresses an operation takes from the configuration
ResolvedFields(op) ==
    CASE op = "mint_reward_tokens" -> {"ISATokenAddress"}
      [] op = "deduct_service_tokens" -> {"UsageBillingAddress"}
      [] op = "mint_service_certificate" -> {"ISANFTAddress"}
      [] op = "swap_tokens_for_service" -> {"SimpleDEXAddress", "ISATokenAddress"}
      [] OTHER -> {"ServiceRegistryAddress"}

ConfigurationMissing(op) ==
    \/ defaultChain = "" \/ ~chainCfg.chainConfigured
    \/ \E f \in ResolvedFields(op) : chainCfg.contracts[f] = ""

ConfigurationErrors ==
    {"no default chain set", "failed to get contract address", "contract not configured"}

\* C30: a high-level operation whose default chain is not configured, or one
\* of whose contract addresses is empty, returns a configuration error and
\* calls no adapter method
C30_NoAdapterCallWithoutConfiguration ==
    (outcome.op \in Operations /\ ConfigurationMissing(outcome.op)) =>
        /\ outcome.err \in ConfigurationErrors
        /\ outcome.calls = <<>>

\* the swap goes to the adapter with an empty service-token address
C30_SwapWithEmptyToken ==
    /\ outcome.op = "swap_tokens_for_service"
    /\ chainCfg.contracts["ISATokenAddress"] = ""
    /\ Len(outcome.calls) = 1 /\ outcome.calls[1].method = "SwapTokens"
    /\ outcome.calls[1].addresses[2] = ""

\* minting with the same address empty is refused
C30_MintRefused ==
    /\ outcome.op = "mint_reward_tokens"
    /\ chainCfg.contracts["ISATokenAddress"] = ""
    /\ outcome.err = "contract not configured" /\ outcome.calls = <<>>

(* ---------------- one response per request ------------------------------ *)

AuthenticationErrors == {"insufficient permissions", "authentication required"}

\* C36: a request that passes through the unified authentication middleware
\* gets at most one response written: after the 403 of a denied authorization
\* no further error body is appended, and no request gets both a handler
\* response and an authentication error
C36_AtMostOneResponse ==
    /\ Len(bodies) <= 1
    /\ \A i, j \in 1..Len(bodies) :
         ~(bodies[i] \in AuthenticationErrors /\ bodies[j] \notin AuthenticationErrors)

\* the denied request that is answered twice
C36_ForbiddenThenUnauthorized ==
    /\ pc = "done" /\ status = 403
    /\ bodies = <<"insufficient permissions", "authentication required">>

(* ---------------- the chain registry ------------------------------------ *)

DefaultIsRegistered == defaultChain = "" \/ defaultChain \in chains

NoNilDefault ==
    ret.call = "GetDefaultChain" => ~(ret.value = NoAdapter /\ ret.err = "")

\* a call of RegisterChain for a registered type returns an error and leaves
\* the registry as it was, one for a free type stores the adapter; a call of
\* SetDefaultChain for an unregistered type returns an error and leaves the
\* default as it was
RegistryStep ==
    /\ (ret'.call = "RegisterChain" /\ ret'.arg \in chains)
         => (ret'.err # "" /\ adapterAt' = adapterAt /\ chains' = chains)
    /\ (ret'.call = "RegisterChain" /\ ret'.arg \notin chains)
         => (ret'.err = "" /\ adapterAt'[ret'.arg] = ret'.value)
    /\ (ret'.call = "SetDefaultChain" /\ ret'.arg \notin chains)
         => (ret'.err # "" /\ defaultChain' = defaultChain)
    /\ (ret'.call = "SetDefaultChain" /\ ret'.arg \in chains)
         => (ret'.err = "" /\ defaultChain' = ret'.arg)

\* C37: after any sequence of RegisterChain, SetDefaultChain, GetChain,
\* GetDefaultChain and Close the default chain is unset or registered;
\* RegisterChain for a registered type returns an error and keeps the adapter
\* in place; a refused default leaves the default as it was; GetDefaultChain
\* never returns a nil adapter with a nil error
C37_DefaultIsUnsetOrRegistered ==
    /\ []DefaultIsRegistered
    /\ []NoNilDefault
    /\ [][RegistryStep]_vars

\* both chains are registered, the default was moved to the second one and
\* read back
C37_Witness ==
    /\ ret.call = "GetDefaultChain" /\ ret.err = "" /\ ret.value = "eth"
    /\ adapterAt[ChainTypeISA] = "isa" /\ chains = ChainTypes

\* a second adapter was offered for the ISA chain and refused
C37_WitnessRefused ==
    /\ ret.call = "RegisterChain" /\ ret.arg = ChainTypeISA /\ ret.value = "eth"
    /\ ret.err # "" /\ adapterAt[ChainTypeISA] = "isa"

(* ---------------- the ISA chain adapter --------------------------------- *)

AdapterState == <<connected, rpcClient>>

\* what a call may do to the adapter, by the state it was made in
AdapterStep ==
    /\ (ret'.call = "Connect" /\ connected)
         => (ret'.err = "" /\ AdapterState' = AdapterState)
    /\ (ret'.call = "Disconnect" /\ ~connected)
         => (ret'.err = "" /\ AdapterState' = AdapterState)
    /\ (ret'.call = "Connect" /\ ret'.err # "") => ~connected'
    /\ (ret'.call = "Connect" /\ ret'.err = "") => connected'
    /\ (ret'.call = "Disconnect") => (ret'.err = "" /\ ~connected')
    /\ (ret'.call \in ChainOperations \cup {"IsConnected", "GetChainID"})
         => AdapterState' = AdapterState
    /\ (ret'.call \in ChainOperations /\ ~connected) => ret'.err = NotConnected

\* C38: the ISA adapter is either disconnected or connected; Connect on a
\* connected adapter and Disconnect on a disconnected one return nil and change
\* nothing, a failed Connect leaves it disconnected, and while it is
\* disconnected every chain operation returns the not-connected error and
\* changes no state
C38_TwoStateAdapter ==
    /\ [](connected \in BOOLEAN)
    /\ [][AdapterStep]_vars

\* a chain operation was refused by the disconnected adapter
C38_Witness ==
    /\ ~connected /\ ret.call = "SendTransaction" /\ ret.err = NotConnected

(* ---------------- the blockchain endpoints ------------------------------ *)

Unavailable == ~connected \/ ChainTypeISA \notin chains

\* C31: whenever the ISA adapter is disconnected or not registered, each of
\* the five endpoints answers 500 or 503, never a 2xx
C31_UnavailableIs5xx ==
    (ret.call \in Endpoints /\ Unavailable) => ret.code \in {500, 503}

\* the status endpoint answering 200 for a disconnected adapter
C31_StatusOKWhileDisconnected ==
    /\ ret.call = "status" /\ ret.code = 200 /\ ~connected

\* the other four endpoints never answer 2xx for it
C31_OthersNever2xx ==
    (ret.call \in Endpoints \ {"status"} /\ Unavailable) => ret.code \notin 200..299
(* ---------------- the probes --------------------------------------------- *)

Reachable(s) == reachable[s] = "up"

\* C33: /ready answers 200 exactly when every backend is reachable and 503
\* otherwise, with a map that is false for each unreachable backend; /health
\* answers 200 in every state
C33_ReadyIffAllReachable ==
    /\ probe.path = "/ready"
         => /\ probe.code = 200 <=> \A s \in Subsystems : Reachable(s)
            /\ probe.code \in {200, 503}
            /\ \A s \in Subsystems : ~Reachable(s) => ~probe.services[s]
    /\ probe.path = "/health" => probe.code = 200

\* ready, and all backends true, while the user service is down
C33_ReadyWhileDown ==
    /\ probe.path = "/ready" /\ probe.code = 200 /\ reachable["user_service"] = "down"
    /\ probe.services["user_service"]

\* the liveness probe on its own
C33_HealthIs200 == probe.path = "/health" => probe.code = 200

(* ---------------- the registry client ----------------------------------- *)

Healthy(name) == { Instance(r) : r \in { x \in agent : x.Name = name /\ x.passing } }
Listed == { found.instances[i] : i \in 1..Len(found.instances) }

\* C34: DiscoverService returns only the instances the registry reports
\* healthy, and an empty list without an error when there is none;
\* GetHealthyInstance returns the first element of that list and reports
\* not-found when the list is empty
C34_EmptyListIsNotAnError ==
    /\ found.call = "DiscoverService"
         => /\ Listed = Healthy(found.arg)
            /\ found.err = ""
    /\ found.call = "GetHealthyInstance"
         => IF Healthy(found.arg) = {} THEN found.err # ""
            ELSE found.err = "" /\ Len(found.instances) = 1 /\ Listed \subseteq Healthy(found.arg)

\* DiscoverService answering with an error while "users" is registered and
\* its check has not passed
C34_ErrorForNoHealthyInstance ==
    /\ found.call = "DiscoverService" /\ found.arg = "users" /\ found.err # ""
    /\ \E r \in agent : r.Name = "users"

\* what does hold: the list is the healthy instances, and an error is
\* returned exactly when there is none
C34_OnlyHealthy ==
    /\ found.call \in {"DiscoverService", "GetHealthyInstance"}
         => /\ Listed \subseteq Healthy(found.arg)
            /\ found.err # "" <=> Healthy(found.arg) = {}
    /\ found.call = "DiscoverService" => Listed = Healthy(found.arg)

BlockchainServices ==
    {"blockchain-gateway"} \cup Features \cup { ChainService(t) : t \in ChainTypes }

\* C35: a registered service is listed once it is healthy; after
\* DeregisterService with its id, or after DeregisterAll for the blockchain
\* services, it is no longer registered
C35_DeregistrationUndoesRegistration ==
    /\ found.call = "DiscoverService" => Healthy(found.arg) \subseteq Listed
    /\ found.call = "DeregisterService" => \A r \in agent : r.ID # found.arg
    /\ found.call = "DeregisterAll" => \A r \in agent : r.Name \notin BlockchainServices

\* the blockchain gateway still registered, and passing, after DeregisterAll
C35_StillRegisteredAfterDeregisterAll ==
    /\ found.call = "DeregisterAll" /\ found.err # ""
    /\ \E r \in agent : r.Name = "blockchain-gateway" /\ r.passing

\* the part that holds: RegisterService and DeregisterService with the id
C35_ByIdIsInverse ==
    /\ found.call = "DiscoverService" => Healthy(found.arg) \subseteq Listed
    /\ found.call = "DeregisterService" => \A r \in agent : r.ID # found.arg
    /\ found.call = "RegisterService" => \E r \in agent : r.ID = found.arg

(* ---------------- shutdown ----------------------------------------------- *)

Returned == proc["main"] \in {"returned", "exited"}
StopStarted(s) == proc[Watcher(s)] \in {"stopping", "done"}
StopFinished(s) == proc[Watcher(s)] = "done"

\* C32: on a signal and on the failure of either listener the shared context
\* is cancelled, and the HTTP server's Shutdown and the gRPC server's
\* GracefulStop are started and have finished before runGateway returns
C32_StopsFinishBeforeReturn ==
    Returned => /\ ctxDone
                /\ \A s \in {"http", "grpc"} : StopStarted(s) /\ StopFinished(s)

\* runGateway has returned after a signal and neither server was told to stop
C32_ReturnedBeforeStopBegan ==
    /\ proc["main"] = "exited"
    /\ proc["httpStop"] = "wait" /\ proc["grpcStop"] = "wait"
    /\ servers = [http |-> "serving", grpc |-> "serving"]
    /\ inflight = {"http", "grpc"}

\* what does hold: the context is cancelled by the time runGateway returns
C32_CancelledOnReturn == Returned => ctxDone

(* ---------------- the event-bus consumer -------------------------------- *)

\* C39: every delivery is settled exactly once: acknowledged if and only if
\* the message was decoded and the handler returned nil, negatively
\* acknowledged if decoding failed or the handler returned an error; the
\* handler is not invoked for an undecodable message, no delivery is both
\* acked and nak'd, and no message is delivered more than MaxDeliver times
C39_SettledOncePerDelivery ==
    /\ \A d \in settled :
         /\ Len(d.calls) = 1
         /\ d.calls = <<"Ack">> <=> (d.decoded /\ d.handled /\ ~d.handlerErr)
         /\ d.calls = <<"Nak">> <=> (~d.decoded \/ d.handlerErr)
         /\ ~d.decoded => ~d.handled
         /\ d.delivery <= MaxDeliver
    /\ \A m \in Messages : events.msg[m].deliveries <= MaxDeliver
    /\ \A m \in Messages :
         events.msg[m].state = "acked"
           => \E d \in settled : d.msg = m /\ d.calls = <<"Ack">>

\* a message nak'd twice for the handler's error and acknowledged on its third
\* delivery, and an undecodable one given up after three
C39_Witness ==
    /\ events.msg["m1"] = [deliveries |-> 3, state |-> "acked"]
    /\ \E d \in settled : d.msg = "m1" /\ d.delivery = 2 /\ d.calls = <<"Nak">> /\ d.handlerErr
    /\ events.msg["m2"].state = "given up"

====
